---- MODULE Spec2Model ----
(***************************************************************************)
(* github-upvotes: the upvote score of the items of a GitHub Project (v2)  *)
(* board.  The repository holds several iterations of the same program;    *)
(* each iteration that a property is about is modelled under its own       *)
(* specification:                                                          *)
(*   SpecPure      the scoring and skip functions (queries.go, query.go,   *)
(*                 lib/upvotes/query.go and the unnamed query files)       *)
(*   SpecLibQuery  the accessors of UpvoteQuery (lib/upvotes/query.go)     *)
(*   SpecTimeline  one item's timeline paging (project.go, handler.go)     *)
(*   SpecConn      one item's lock-step connection paging (lib/upvotes,    *)
(*                 internal/upvotes)                                       *)
(*   SpecSeq       the sequential walkers (project.go, lib/upvotes)        *)
(*   SpecConc      the concurrent Calculator (handler.go)                  *)
(*   SpecRate      the Calculator's rateLimitRemaining (handler.go)        *)
(*   SpecEarly     the earlier Calculator, shared c.queue (handler.go)     *)
(*   SpecPipe      the channel pipeline (cmd/root.go, unnamed pipeline)    *)
(*   SpecMain      the process: startup, exit status, output (main.go,     *)
(*                 cmd/root.go)                                            *)
(*                                                                         *)
(* Cursors are modelled as positions: the cursor of the i-th element of a  *)
(* list is i, and 0 stands for both the null cursor and the empty string   *)
(* (the Go zero value a null endCursor is decoded to); a query "after 0"   *)
(* starts at the first element.                                            *)
(***************************************************************************)
EXTENDS Integers, Sequences, FiniteSets, TLC

\* ------------------------------------------------------------------ bounds
\* comment and reaction counts range over 0..MaxCount
MaxCount == 1
\* nodes per page of a timeline (first: 10 in queries.go, scaled down)
TimelinePageSize == 1
\* nodes per page of a connection of the lib variant (first: 10, scaled down)
ConnPageSize == 1
\* nodes of one connection of an item
MaxConn == 3
\* nodes of the timeline of an item
MaxTimeline == 3
\* items on the board
MaxItems == 3
\* the rate limit credits the API reports range over 0..RateBudget
RateBudget == 1
\* items per page of the board in project.go (first:10, scaled down)
ItemsPageSize == 2
\* the connection loop is followed until a connection has been counted this
\* many times over
MaxRounds == 3

\* ------------------------------------------------------------- vocabulary
Kinds == {"Issue", "PullRequest", "DraftIssue"}
ContentKinds == {"Issue", "PullRequest"}
LinkedEvents == {"ConnectedEvent", "CrossReferencedEvent", "MarkedAsDuplicateEvent"}
PlainEvents == {"ReferencedEvent", "SubscribedEvent"}
Counts == 0..MaxCount

Min(a, b) == IF a <= b THEN a ELSE b
Max(a, b) == IF a >= b THEN a ELSE b

RECURSIVE SumSeq(_)
SumSeq(s) == IF s = <<>> THEN 0 ELSE Head(s) + SumSeq(Tail(s))

\* The value of ProjectV2Item.type for an item of the given kind.
ItemTypeTag(kind) ==
    CASE kind = "Issue" -> "ISSUE"
      [] kind = "PullRequest" -> "PULL_REQUEST"
      [] OTHER -> "DRAFT_ISSUE"

\* ------------------------------------------------- the board (environment)
\* One timeline event of an issue or pull request: its type t, and what the
\* type carries: the linked issue/PR (kind lkind, lc comments, lr reactions)
\* of a connected / cross-referenced / duplicate event, the reactions cr of
\* an issue comment.
WorldNodes ==
    [t : LinkedEvents, lkind : ContentKinds, lc : Counts, lr : Counts, cr : {0}]
    \cup [t : {"IssueComment"}, lkind : {""}, lc : {0}, lr : {0}, cr : Counts]
    \cup [t : PlainEvents, lkind : {""}, lc : {0}, lr : {0}, cr : {0}]

\* ------------------------------------------- decoded responses (timeline)
ZeroBase == [Comments |-> 0, Reactions |-> 0]
ZeroCombined == [Type |-> "", Issue |-> ZeroBase, PullRequest |-> ZeroBase]

\* CombinedBaseFragment / IssueOrPullRequestCommentsAndReactionsFragment as
\* decoded: __typename, and only the matching inline fragment is filled.
ApiCombined(n) ==
    [Type |-> n.lkind,
     Issue |-> IF n.lkind = "Issue"
               THEN [Comments |-> n.lc, Reactions |-> n.lr] ELSE ZeroBase,
     PullRequest |-> IF n.lkind = "PullRequest"
                     THEN [Comments |-> n.lc, Reactions |-> n.lr] ELSE ZeroBase]

\* TimeLineItem as decoded.
ApiTimeLineItem(n) ==
    [Type |-> n.t,
     ConnectedEvent |-> IF n.t = "ConnectedEvent" THEN ApiCombined(n) ELSE ZeroCombined,
     CrossReferencedEvent |->
         IF n.t = "CrossReferencedEvent" THEN ApiCombined(n) ELSE ZeroCombined,
     IssueComment |-> [Reactions |-> IF n.t = "IssueComment" THEN n.cr ELSE 0],
     MarkedAsDuplicateEvent |->
         IF n.t = "MarkedAsDuplicateEvent" THEN ApiCombined(n) ELSE ZeroCombined]

\* ------------------------------------------------ scoring: unnamed/part_003
BaseUpvotes(b) == b.Comments + b.Reactions

CombinedBaseUpvotes_IssueOnly(c) == BaseUpvotes(c.Issue)

CombinedBaseUpvotes(c) ==
    IF c.Type = "Issue" THEN BaseUpvotes(c.Issue) ELSE BaseUpvotes(c.PullRequest)

TimeLineItemUpvotes(t) ==
    1 + (CASE t.Type = "ConnectedEvent" -> CombinedBaseUpvotes(t.ConnectedEvent)
           [] t.Type = "CrossReferencedEvent" ->
                  CombinedBaseUpvotes(t.CrossReferencedEvent)
           [] t.Type = "IssueComment" -> t.IssueComment.Reactions
           [] t.Type = "MarkedAsDuplicateEvent" ->
                  CombinedBaseUpvotes(t.MarkedAsDuplicateEvent)
           [] OTHER -> 0)

\* ---------------------------------------------------- scoring: queries.go
countOfCommentsAndReactions_CommentsOnly(c) == c.Comments

countOfCommentsAndReactions(c) == c.Comments + c.Reactions

\* IssueOrPullRequestCommentsAndReactionsFragment.upvotes
linkedUpvotes_queries(i) ==
    CASE i.Type = "Issue" -> countOfCommentsAndReactions(i.Issue)
      [] i.Type = "PullRequest" -> countOfCommentsAndReactions(i.PullRequest)
      [] OTHER -> 0

\* TimelineItem.upvotes
timelineItemUpvotes_queries(t) ==
    1 + (CASE t.Type = "ConnectedEvent" -> linkedUpvotes_queries(t.ConnectedEvent)
           [] t.Type = "CrossReferencedEvent" ->
                  linkedUpvotes_queries(t.CrossReferencedEvent)
           [] t.Type = "IssueComment" -> t.IssueComment.Reactions
           [] t.Type = "MarkedAsDuplicateEvent" ->
                  linkedUpvotes_queries(t.MarkedAsDuplicateEvent)
           [] OTHER -> 0)

\* ContentFragment.Upvotes
Upvotes_queries(c) ==
    countOfCommentsAndReactions(c)
    + SumSeq([i \in 1..Len(c.TimelineItems.Nodes) |->
                 timelineItemUpvotes_queries(c.TimelineItems.Nodes[i])])

\* ------------------------------------------------------- server: timeline
\* The page of a list of n elements that follows cursor `after`, size elements
\* at most: the positions on it, its endCursor (0 when the page is empty) and
\* hasNextPage.
PageLo_FromStart(after) == 1

PageLo(after) == after + 1
PageHi(n, after, size) == Min(after + size, n)
PageEndCursor(n, after, size) ==
    IF PageHi(n, after, size) >= PageLo(after) THEN PageHi(n, after, size) ELSE 0
PageHasNext(n, after, size) == PageHi(n, after, size) < n

TimelinePage(timeline, after) ==
    [EndCursor |-> PageEndCursor(Len(timeline), after, TimelinePageSize),
     HasNextPage |-> PageHasNext(Len(timeline), after, TimelinePageSize),
     Nodes |-> [i \in 1..Max(0, PageHi(Len(timeline), after, TimelinePageSize) - after) |->
                   ApiTimeLineItem(timeline[after + i])]]

ZeroContentFragment ==
    [Closed |-> FALSE, Comments |-> 0, Reactions |-> 0,
     TimelineItems |-> [EndCursor |-> 0, HasNextPage |-> FALSE, Nodes |-> <<>>]]

\* ContentFragment of the issue or pull request w, its timeline read after
\* the cursor tlAfter.
ApiContentFragment(w, tlAfter) ==
    [Closed |-> w.closed, Comments |-> w.comments, Reactions |-> w.reactions,
     TimelineItems |-> TimelinePage(w.timeline, tlAfter)]

\* Content (queries.go:99-103): __typename and the matching inline fragment.
ApiContent(w, tlAfter) ==
    [Type |-> w.kind,
     Issue |-> IF w.kind = "Issue" THEN ApiContentFragment(w, tlAfter)
               ELSE ZeroContentFragment,
     PullRequest |-> IF w.kind = "PullRequest" THEN ApiContentFragment(w, tlAfter)
                     ELSE ZeroContentFragment]

\* ProjectItemEdgeFragment (queries.go:39-56) of the item w at position pos.
ApiProjectItem(w, pos, tlAfter) ==
    [Id |-> pos, Cursor |-> pos, IsArchived |-> w.archived,
     Type |-> ItemTypeTag(w.kind),
     UpvotesField |-> w.field, UpvotesCursorField |-> w.stored,
     Content |-> ApiContent(w, tlAfter)]

\* ------------------------------------------------ skip: queries.go, part_004
GetContent_queries(p) ==
    CASE p.Content.Type = "Issue" -> p.Content.Issue
      [] p.Content.Type = "PullRequest" -> p.Content.PullRequest
      [] OTHER -> ZeroContentFragment

current(p) == p.UpvotesCursorField # GetContent_queries(p).TimelineItems.EndCursor

Skip_queries(p) ==
    p.Type = "DraftIssue" \/ p.IsArchived \/ GetContent_queries(p).Closed \/ ~current(p)

GetContent_part004(p) ==
    CASE p.Content.Type = "Issue" -> p.Content.Issue
      [] p.Content.Type = "PullRequest" -> p.Content.PullRequest
      [] OTHER -> ZeroContentFragment

Skip_part004(p) ==
    p.Type = "DraftIssue" \/ p.IsArchived \/ GetContent_part004(p).Closed

\* -------------------------------------------- server: lib/upvotes variant
\* ConnectionWithReactables: nodes is the list of the reaction counts of the
\* connection's nodes, the page is the one after the cursor `after`.
ApiConnection(nodes, after) ==
    [Nodes |-> [i \in 1..Max(0, PageHi(Len(nodes), after, ConnPageSize) - after) |->
                   nodes[after + i]],
     PageInfo |-> [EndCursor |-> PageEndCursor(Len(nodes), after, ConnPageSize),
                   HasNextPage |-> PageHasNext(Len(nodes), after, ConnPageSize)],
     TotalCount |-> Len(nodes)]

ZeroConnection ==
    [Nodes |-> <<>>, PageInfo |-> [EndCursor |-> 0, HasNextPage |-> FALSE],
     TotalCount |-> 0]

ZeroIssueContentFragment ==
    [Closed |-> FALSE, Comments |-> ZeroConnection, Reactions |-> 0,
     TrackedInIssues |-> ZeroConnection, TrackedIssues |-> ZeroConnection]

ZeroPullRequestContentFragment ==
    [Closed |-> FALSE, Comments |-> ZeroConnection, Reactions |-> 0,
     ClosingIssuesReferences |-> ZeroConnection]

\* ProjectItem (lib/upvotes/query.go:96-102) of the item w at position pos,
\* as the query with variables v returns it.
ApiProjectItem_lib(w, pos, v) ==
    [Id |-> pos, IsArchived |-> w.archived, Type |-> ItemTypeTag(w.kind),
     Content |->
       [Issue |->
          IF w.kind = "Issue"
          THEN [Closed |-> w.closed,
                Comments |-> ApiConnection(w.conn.comments, v.commentsCursor),
                Reactions |-> w.reactions,
                TrackedInIssues |->
                    ApiConnection(w.conn.trackedInIssues, v.trackedInIssuesCursor),
                TrackedIssues |->
                    ApiConnection(w.conn.trackedIssues, v.trackedIssuesCursor)]
          ELSE ZeroIssueContentFragment,
        PullRequest |->
          IF w.kind = "PullRequest"
          THEN [Closed |-> w.closed,
                Comments |-> ApiConnection(w.conn.comments, v.commentsCursor),
                Reactions |-> w.reactions,
                ClosingIssuesReferences |->
                    ApiConnection(w.conn.closingIssuesReferences,
                                  v.closingIssuesReferencesCursor)]
          ELSE ZeroPullRequestContentFragment]]

\* ------------------------------------------------ skip: lib/upvotes/query.go
itemTypeIssue == "ISSUE"

isClosed_lib(p) ==
    IF p.Type = itemTypeIssue THEN p.Content.Issue.Closed
    ELSE p.Content.PullRequest.Closed

Skip_lib(node) == node.IsArchived \/ isClosed_lib(node)

\* ------------------------------------- lock-step paging: lib/upvotes/query.go
reactableUpvotes(c) == SumSeq(c.Nodes)
endCursor(c) == c.PageInfo.EndCursor
hasNextPage(c) == c.PageInfo.HasNextPage

connectionsUpvotes_Issue(i) ==
    reactableUpvotes(i.Comments) + reactableUpvotes(i.TrackedIssues)
    + reactableUpvotes(i.TrackedInIssues)

connectionsCursors_Issue(i) ==
    [commentsCursor |-> endCursor(i.Comments),
     trackedInIssuesCursor |-> endCursor(i.TrackedInIssues),
     trackedIssuesCursor |-> endCursor(i.TrackedIssues)]

hasNextPage_Issue(i) ==
    hasNextPage(i.Comments) \/ hasNextPage(i.TrackedIssues)
    \/ hasNextPage(i.TrackedInIssues)

connectionsUpvotes_PullRequest(p) ==
    reactableUpvotes(p.Comments) + reactableUpvotes(p.ClosingIssuesReferences)

connectionsCursors_PullRequest_Spelled(p) ==
    [commentsCursor |-> endCursor(p.Comments),
     closingIssuesReferencesCursor |-> endCursor(p.ClosingIssuesReferences)]

connectionsCursors_PullRequest(p) ==
    [commentsCursor |-> endCursor(p.Comments),
     closingIssueReferencesCursor |-> endCursor(p.ClosingIssuesReferences)]

hasNextPage_PullRequest(p) ==
    hasNextPage(p.Comments) \/ hasNextPage(p.ClosingIssuesReferences)

commentsCount_lib(p) ==
    IF p.Type = itemTypeIssue THEN p.Content.Issue.Comments.TotalCount
    ELSE p.Content.PullRequest.Comments.TotalCount

reactionsCount_lib(p) ==
    IF p.Type = itemTypeIssue THEN p.Content.Issue.Reactions
    ELSE p.Content.PullRequest.Reactions

connectionsUpvotes_lib_BothVariants(p) ==
    connectionsUpvotes_Issue(p.Content.Issue)
    + connectionsUpvotes_PullRequest(p.Content.PullRequest)

connectionsUpvotes_lib(p) ==
    IF p.Type = itemTypeIssue THEN connectionsUpvotes_Issue(p.Content.Issue)
    ELSE connectionsUpvotes_PullRequest(p.Content.PullRequest)

connectionsCursors_lib(p) ==
    IF p.Type = itemTypeIssue THEN connectionsCursors_Issue(p.Content.Issue)
    ELSE connectionsCursors_PullRequest(p.Content.PullRequest)

hasNextPage_lib_BothVariants(p) ==
    hasNextPage_Issue(p.Content.Issue) \/ hasNextPage_PullRequest(p.Content.PullRequest)

hasNextPage_lib(p) ==
    IF p.Type = itemTypeIssue THEN hasNextPage_Issue(p.Content.Issue)
    ELSE hasNextPage_PullRequest(p.Content.PullRequest)

\* for k, v := range cursors { vars[k] = v }
SetVars(v, cursors) ==
    [k \in DOMAIN v \cup DOMAIN cursors |->
        IF k \in DOMAIN cursors THEN cursors[k] ELSE v[k]]

\* ------------------------------------------------ decoding into `query`
\* The loop decodes every response into the same query variable.  The
\* endCursor of an empty page is null; the decoded string is then either the
\* empty string or, when the decoder leaves a null field alone (stale), the
\* value the previous response left there.
DecodeConnection(prev, resp, stale) ==
    IF resp.Nodes = <<>> /\ stale
    THEN [resp EXCEPT !.PageInfo.EndCursor = prev.PageInfo.EndCursor]
    ELSE resp

DecodeItem(prev, resp, stale) ==
    [resp EXCEPT
       !.Content.Issue.Comments =
           DecodeConnection(prev.Content.Issue.Comments, @, stale),
       !.Content.Issue.TrackedInIssues =
           DecodeConnection(prev.Content.Issue.TrackedInIssues, @, stale),
       !.Content.Issue.TrackedIssues =
           DecodeConnection(prev.Content.Issue.TrackedIssues, @, stale),
       !.Content.PullRequest.Comments =
           DecodeConnection(prev.Content.PullRequest.Comments, @, stale),
       !.Content.PullRequest.ClosingIssuesReferences =
           DecodeConnection(prev.Content.PullRequest.ClosingIssuesReferences, @, stale)]

\* var query UpvoteQuery
ZeroProjectItem_lib ==
    [Id |-> 0, IsArchived |-> FALSE, Type |-> "",
     Content |-> [Issue |-> ZeroIssueContentFragment,
                  PullRequest |-> ZeroPullRequestContentFragment]]

\* --------------------------------- lock-step paging: internal/upvotes
itemTypePullRequest == "PULL_REQUEST"

RootTotalUpvotes(node) ==
    IF node.Type = itemTypeIssue THEN node.Content.Issue.Reactions
    ELSE node.Content.PullRequest.Reactions

RootTotalComments(node) ==
    IF node.Type = itemTypeIssue THEN node.Content.Issue.Comments.TotalCount
    ELSE node.Content.PullRequest.Comments.TotalCount

\* handleQueryPage: what it returns and what it leaves in the variables v
handleQueryPage(item, v) ==
    CASE item.Type = itemTypeIssue ->
           [upvotes |-> connectionsUpvotes_Issue(item.Content.Issue),
            hasNextPage |-> hasNextPage_Issue(item.Content.Issue),
            v |-> IF hasNextPage_Issue(item.Content.Issue)
                  THEN SetVars(v, connectionsCursors_Issue(item.Content.Issue))
                  ELSE v]
      [] item.Type = itemTypePullRequest ->
           [upvotes |-> connectionsUpvotes_PullRequest(item.Content.PullRequest),
            hasNextPage |-> hasNextPage_PullRequest(item.Content.PullRequest),
            v |-> IF hasNextPage_PullRequest(item.Content.PullRequest)
                  THEN SetVars(v, connectionsCursors_PullRequest_Spelled(
                                      item.Content.PullRequest))
                  ELSE v]
      [] OTHER -> [upvotes |-> 0, hasNextPage |-> FALSE, v |-> v]

\* ================================================================ state
VARIABLES
    pw,     \* SpecPure: the item the functions are applied to
    pout,   \* SpecPure: the function applied last and what it returned
    tw,     \* SpecTimeline: the item whose timeline is paged
    tl,     \* SpecTimeline: the paging loop's locals
    cw,     \* SpecConn: the item whose connections are paged
    cn,     \* SpecConn: the paging loop's locals
    sb,     \* SpecSeq: the board
    sq,     \* SpecSeq: the walker
    cb,     \* SpecConc: the board
    cc,     \* SpecConc: the Calculator, its goroutines and its channels
    rw,     \* SpecRate: the Calculator variant and the budget it starts with
    rs,     \* SpecRate: rateLimitRemaining and the goroutines that access it
    lw,     \* SpecPipe: the board
    ls,     \* SpecPipe: the three stages of the pipeline and their channels
    mw,     \* SpecMain: the program, its environment, what its calls return
    ms      \* SpecMain: the process: where it is, exit status, output file

pureVars == <<pw, pout>>
tlVars == <<tw, tl>>
connVars == <<cw, cn>>
seqVars == <<sb, sq>>
concVars == <<cb, cc>>
rateVars == <<rw, rs>>
pipeVars == <<lw, ls>>
mainVars == <<mw, ms>>
vars == <<pureVars, tlVars, connVars, seqVars, concVars, rateVars, pipeVars, mainVars>>

IdlePure == pw = "idle" /\ pout = "idle"
IdleTimeline == tw = "idle" /\ tl = "idle"
IdleConn == cw = "idle" /\ cn = "idle"
IdleSeq == sb = "idle" /\ sq = "idle"
IdleConc == cb = "idle" /\ cc = "idle"
IdleRate == rw = "idle" /\ rs = "idle"
IdlePipe == lw = "idle" /\ ls = "idle"
IdleMain == mw = "idle" /\ ms = "idle"

\* ============================================================== SpecPure
\* The scoring and skip functions applied to one item.
PureTimelines == {<<>>} \cup {<<n>> : n \in WorldNodes}

PureWorlds ==
    [kind : ContentKinds, archived : BOOLEAN, closed : BOOLEAN,
     comments : Counts, reactions : Counts, timeline : PureTimelines,
     stored : 0..1, field : Counts]
    \cup [kind : {"DraftIssue"}, archived : BOOLEAN, closed : {FALSE},
          comments : {0}, reactions : {0}, timeline : {<<>>},
          stored : 0..1, field : Counts]

\* The item as the item list query returns it: timelines from their start.
PureItem == ApiProjectItem(pw, 1, 0)

\* The same item in the lib variant: one comment node per comment.
PureLibWorld ==
    [kind |-> pw.kind, archived |-> pw.archived, closed |-> pw.closed,
     reactions |-> pw.reactions,
     conn |-> [comments |-> [i \in 1..pw.comments |-> 0],
               trackedInIssues |-> <<>>, trackedIssues |-> <<>>,
               closingIssuesReferences |-> <<>>]]

NullCursors ==
    [commentsCursor |-> 0, trackedInIssuesCursor |-> 0, trackedIssuesCursor |-> 0,
     closingIssuesReferencesCursor |-> 0]

PureLibItem == ApiProjectItem_lib(PureLibWorld, 1, NullCursors)

NoBools == [queries |-> FALSE, part004 |-> FALSE, lib |-> FALSE]
NoInts == [queries |-> 0, part003 |-> 0]

InitPure ==
    /\ pw \in PureWorlds
    /\ pout = [op |-> "none", b |-> NoBools, n |-> NoInts]
    /\ IdleTimeline /\ IdleConn /\ IdleSeq /\ IdleConc /\ IdleRate /\ IdlePipe
    /\ IdleMain

ApplySkip ==
    /\ pout' = [op |-> "Skip",
                b |-> [queries |-> Skip_queries(PureItem),
                       part004 |-> Skip_part004(PureItem),
                       lib |-> Skip_lib(PureLibItem)],
                n |-> NoInts]
    /\ UNCHANGED <<pw, tlVars, connVars, seqVars, concVars, rateVars, pipeVars, mainVars>>

ApplyUpvotes ==
    /\ pout' = [op |-> "Upvotes", b |-> NoBools,
                n |-> [queries |-> Upvotes_queries(GetContent_queries(PureItem)),
                       part003 |-> BaseUpvotes(GetContent_queries(PureItem))]]
    /\ UNCHANGED <<pw, tlVars, connVars, seqVars, concVars, rateVars, pipeVars, mainVars>>

ApplyTimeLineItem ==
    /\ pw.timeline # <<>>
    /\ pout' = [op |-> "TimeLineItem", b |-> NoBools,
                n |-> [queries |->
                           timelineItemUpvotes_queries(ApiTimeLineItem(pw.timeline[1])),
                       part003 |-> TimeLineItemUpvotes(ApiTimeLineItem(pw.timeline[1]))]]
    /\ UNCHANGED <<pw, tlVars, connVars, seqVars, concVars, rateVars, pipeVars, mainVars>>

\* ProcessProjectItem of one item that is not skipped (the items of this
\* specification have one page of timeline, no further page is fetched): the
\* upvotes of the earlier version, which adds the value of the item's Upvotes
\* field to content.Upvotes(), and the upvotes of the Update of project.go
ApplyProcessProjectItem ==
    /\ ~Skip_part004(PureItem)
    /\ LET content == GetContent_part004(PureItem)
       IN  pout' = [op |-> "ProcessProjectItem", b |-> NoBools,
                    n |-> [part005 |-> Upvotes_queries(content) + PureItem.UpvotesField,
                           project |-> Upvotes_queries(content)]]
    /\ UNCHANGED <<pw, tlVars, connVars, seqVars, concVars, rateVars, pipeVars, mainVars>>

NextPure == ApplySkip \/ ApplyUpvotes \/ ApplyTimeLineItem \/ ApplyProcessProjectItem

SpecPure == InitPure /\ [][NextPure]_vars

\* What the properties compare the functions with.
ExpectedSkip(w) == w.archived \/ w.kind = "DraftIssue" \/ w.closed

ExpectedNode(n) ==
    1 + (IF n.t \in LinkedEvents THEN n.lc + n.lr
         ELSE IF n.t = "IssueComment" THEN n.cr ELSE 0)

\* C4: Skip() is true exactly when the item is archived, or a draft issue, or
\* its issue / pull request is closed, in each of the three versions of Skip
\* (queries.go, the unnamed query file, lib/upvotes/query.go).
C4_SkipExactlyThreeConditions ==
    pout.op = "Skip" =>
        /\ pout.b.queries = ExpectedSkip(pw)
        /\ pout.b.part004 = ExpectedSkip(pw)
        /\ pout.b.lib = ExpectedSkip(pw)

C37_ScoreIgnoresStoredUpvotes ==
    pout.op = "ProcessProjectItem" =>
        LET content == GetContent_part004(ApiProjectItem([pw EXCEPT !.field = 0], 1, 0))
        IN  /\ pout.n.project = Upvotes_queries(content)
            /\ pout.n.part005 = Upvotes_queries(content)

\* C6: a timeline node contributes at least 1: 1 plus the comments and
\* reactions of the linked issue or pull request for a connected,
\* cross-referenced or duplicate event, 1 plus its reactions for an issue
\* comment, exactly 1 for a referenced or subscribed event.
C6_NodeContribution ==
    pout.op = "TimeLineItem" =>
        /\ pout.n.part003 = ExpectedNode(pw.timeline[1])
        /\ pout.n.queries = ExpectedNode(pw.timeline[1])
        /\ pout.n.part003 >= 1
        /\ pw.timeline[1].t \in PlainEvents => pout.n.part003 = 1

C6_Witness ==
    /\ pout.op = "TimeLineItem"
    /\ pw.timeline[1].t = "CrossReferencedEvent"
    /\ pw.timeline[1].lkind = "PullRequest"
    /\ pw.timeline[1].lc = 1 /\ pw.timeline[1].lr = 1
    /\ pout.n.part003 = 3

\* =========================================================== SpecLibQuery
\* The accessors of UpvoteQuery (lib/upvotes/query.go) applied to a decoded
\* query whose only project item, Nodes[0], is pw: any item type, and pages
\* of connections in both content fragments.
LibQueryItems ==
    LET Connections ==
            [Nodes : {<<>>} \cup {<<r>> : r \in 1..MaxCount},
             PageInfo : [EndCursor : {0}, HasNextPage : BOOLEAN],
             TotalCount : {0}]
    IN  [Id : {1}, IsArchived : {FALSE},
         Type : {itemTypeIssue, itemTypePullRequest, "DRAFT_ISSUE"},
         Content :
           [Issue : [Closed : {FALSE}, Comments : Connections,
                     Reactions : {0}, TrackedInIssues : Connections,
                     TrackedIssues : Connections],
            PullRequest : [Closed : {FALSE}, Comments : Connections,
                           Reactions : {0},
                           ClosingIssuesReferences : Connections]]]

InitLibQuery ==
    /\ pw \in LibQueryItems
    /\ pout = [op |-> "none", b |-> FALSE, n |-> 0]
    /\ IdleTimeline /\ IdleConn /\ IdleSeq /\ IdleConc /\ IdleRate /\ IdlePipe
    /\ IdleMain

ProjectItemConnectionsUpvotes ==
    /\ pout' = [op |-> "ProjectItemConnectionsUpvotes", b |-> FALSE,
                n |-> connectionsUpvotes_lib(pw)]
    /\ UNCHANGED <<pw, tlVars, connVars, seqVars, concVars, rateVars, pipeVars, mainVars>>

ProjectItemHasNextPage ==
    /\ pout' = [op |-> "ProjectItemHasNextPage", b |-> hasNextPage_lib(pw),
                n |-> 0]
    /\ UNCHANGED <<pw, tlVars, connVars, seqVars, concVars, rateVars, pipeVars, mainVars>>

NextLibQuery == ProjectItemConnectionsUpvotes \/ ProjectItemHasNextPage

SpecLibQuery == InitLibQuery /\ [][NextLibQuery]_vars

\* the reactions of the nodes of the page c holds, and whether c has more
ExpectedReactions(c) == SumSeq(c.Nodes)
ExpectedMore(c) == c.PageInfo.HasNextPage

\* C28: ProjectItemConnectionsUpvotes is the sum of the reactions of the
\* current page of exactly the connections of the variant the item's type
\* selects: comments + trackedIssues + trackedInIssues for an Issue, comments
\* + closingIssuesReferences for a PullRequest.
C28_ConnectionsUpvotesOfSelectedVariant ==
    pout.op = "ProjectItemConnectionsUpvotes" =>
        /\ pw.Type = itemTypeIssue =>
               pout.n = ExpectedReactions(pw.Content.Issue.Comments)
                        + ExpectedReactions(pw.Content.Issue.TrackedIssues)
                        + ExpectedReactions(pw.Content.Issue.TrackedInIssues)
        /\ pw.Type = itemTypePullRequest =>
               pout.n = ExpectedReactions(pw.Content.PullRequest.Comments)
                        + ExpectedReactions(
                              pw.Content.PullRequest.ClosingIssuesReferences)

\* a pull request with a reaction in each of its two connections, and
\* reactions in the connections of the issue fragment as well: 2
C28_Witness ==
    /\ pout.op = "ProjectItemConnectionsUpvotes"
    /\ pw.Type = itemTypePullRequest
    /\ pw.Content.PullRequest.Comments.Nodes = <<1>>
    /\ pw.Content.PullRequest.ClosingIssuesReferences.Nodes = <<1>>
    /\ pw.Content.Issue.TrackedIssues.Nodes = <<1>>
    /\ pw.Content.Issue.Comments.Nodes = <<1>>
    /\ pout.n = 2

\* C29: ProjectItemHasNextPage is true exactly when a connection of the
\* variant the item's type selects has a next page (comments, trackedIssues
\* or trackedInIssues for an Issue; comments or closingIssuesReferences for a
\* PullRequest); the connections of the other variant do not count.
C29_HasNextPageOfSelectedVariant ==
    pout.op = "ProjectItemHasNextPage" =>
        /\ pw.Type = itemTypeIssue =>
               pout.b = (\/ ExpectedMore(pw.Content.Issue.Comments)
                         \/ ExpectedMore(pw.Content.Issue.TrackedIssues)
                         \/ ExpectedMore(pw.Content.Issue.TrackedInIssues))
        /\ pw.Type = itemTypePullRequest =>
               pout.b = (\/ ExpectedMore(pw.Content.PullRequest.Comments)
                         \/ ExpectedMore(
                                pw.Content.PullRequest.ClosingIssuesReferences))

\* an issue whose connections are all on their last page, while the
\* connections of the pull request fragment report a next page: false
C29_Witness ==
    /\ pout.op = "ProjectItemHasNextPage"
    /\ pw.Type = itemTypeIssue
    /\ ~ExpectedMore(pw.Content.Issue.Comments)
    /\ ~ExpectedMore(pw.Content.Issue.TrackedIssues)
    /\ ~ExpectedMore(pw.Content.Issue.TrackedInIssues)
    /\ ExpectedMore(pw.Content.PullRequest.Comments)
    /\ ExpectedMore(pw.Content.PullRequest.ClosingIssuesReferences)
    /\ ~pout.b

\* ---- items of the lib variant for the walkers
\* an issue with a comment, a pull request with two pages of comments and a
\* closing issue, one with two pages of closing issues, a draft issue, a
\* closed issue, an archived pull request
LibCatalogue ==
    LET NoConn ==
            [comments |-> <<>>, trackedInIssues |-> <<>>, trackedIssues |-> <<>>,
             closingIssuesReferences |-> <<>>]
        LibIssue ==
            [kind |-> "Issue", archived |-> FALSE, closed |-> FALSE, reactions |-> 1,
             conn |-> [NoConn EXCEPT !.comments = <<1>>]]
        LibPullRequest ==
            [kind |-> "PullRequest", archived |-> FALSE, closed |-> FALSE,
             reactions |-> 0,
             conn |-> [NoConn EXCEPT
                         !.comments = [i \in 1..(ConnPageSize + 1) |-> 0],
                         !.closingIssuesReferences = <<1>>]]
        LibDraft ==
            [kind |-> "DraftIssue", archived |-> FALSE, closed |-> FALSE,
             reactions |-> 0, conn |-> NoConn]
    IN  {LibIssue, LibPullRequest,
         [LibPullRequest EXCEPT
             !.conn.closingIssuesReferences = [i \in 1..(ConnPageSize + 1) |-> 1]],
         LibDraft, [LibIssue EXCEPT !.closed = TRUE],
         [LibPullRequest EXCEPT !.archived = TRUE]}

\* ============================================================== SpecConn
\* The connections of one item paged in lock-step: the loop of
\* calculateProjectItemUpvotes in lib/upvotes and in internal/upvotes.
IssueConns == {"comments", "trackedInIssues", "trackedIssues"}
PullRequestConns == {"comments", "closingIssuesReferences"}
ConnsOf(kind) == IF kind = "Issue" THEN IssueConns ELSE PullRequestConns

\* the connections of n nodes, n = 0..MaxConn, each node with r reactions
ConnSeqs(r) == {[i \in 1..n |-> r] : n \in 0..MaxConn}

ConnWorlds ==
    UNION {[kind : {"Issue"}, archived : {FALSE}, closed : {FALSE},
            reactions : Counts,
            conn : [comments : ConnSeqs(r), trackedInIssues : ConnSeqs(r),
                    trackedIssues : ConnSeqs(r), closingIssuesReferences : {<<>>}]]
           \cup
           [kind : {"PullRequest"}, archived : {FALSE}, closed : {FALSE},
            reactions : Counts,
            conn : [comments : ConnSeqs(r), trackedInIssues : {<<>>},
                    trackedIssues : {<<>>}, closingIssuesReferences : ConnSeqs(r)]]
           : r \in Counts}

\* the page of connection c in the decoded item q of an item of this kind
PageOf(q, kind, c) ==
    CASE c = "comments" /\ kind = "Issue" -> q.Content.Issue.Comments
      [] c = "comments" -> q.Content.PullRequest.Comments
      [] c = "trackedInIssues" -> q.Content.Issue.TrackedInIssues
      [] c = "trackedIssues" -> q.Content.Issue.TrackedIssues
      [] OTHER -> q.Content.PullRequest.ClosingIssuesReferences

\* the query variable that pages connection c
CursorVar(c) ==
    CASE c = "comments" -> "commentsCursor"
      [] c = "trackedInIssues" -> "trackedInIssuesCursor"
      [] c = "trackedIssues" -> "trackedIssuesCursor"
      [] OTHER -> "closingIssuesReferencesCursor"

NoAcc ==
    [comments |-> 0, trackedInIssues |-> 0, trackedIssues |-> 0,
     closingIssuesReferences |-> 0]

\* the locals of calculateProjectItemUpvotes at its entry, and two history
\* variables: acc, per connection the reactions added to upvotes so far, and
\* issued, the parity of the number of queries issued
LoopEntry ==
    [pc |-> "query", vars |-> NullCursors, query |-> ZeroProjectItem_lib,
     upvotes |-> 0, acc |-> NoAcc, requeried |-> FALSE, issued |-> 0]

Accumulate(acc, q, kind) ==
    [c \in DOMAIN acc |->
        IF c \in ConnsOf(kind) THEN acc[c] + reactableUpvotes(PageOf(q, kind, c))
        ELSE acc[c]]

\* one iteration of the loop of lib/upvotes calculateProjectItemUpvotes
\* (on break: the root reactions and comments are added)
LibIteration(w, pos, st, stale) ==
    LET q == DecodeItem(st.query, ApiProjectItem_lib(w, pos, st.vars), stale)
        up == st.upvotes + connectionsUpvotes_lib(q)
    IN  IF ~hasNextPage_lib(q)
        THEN [st EXCEPT !.pc = "done", !.query = q, !.issued = 1 - @,
                        !.upvotes = up + reactionsCount_lib(q) + commentsCount_lib(q),
                        !.acc = Accumulate(@, q, w.kind)]
        ELSE [st EXCEPT !.query = q, !.upvotes = up, !.issued = 1 - @,
                        !.acc = Accumulate(@, q, w.kind),
                        !.vars = SetVars(@, connectionsCursors_lib(q)),
                        !.requeried = TRUE]

\* one iteration of the loop of internal/upvotes calculateProjectItemUpvotes
InternalIteration(w, pos, st, stale) ==
    LET q == DecodeItem(st.query, ApiProjectItem_lib(w, pos, st.vars), stale)
        h == handleQueryPage(q, st.vars)
        up == st.upvotes + h.upvotes
    IN  IF ~h.hasNextPage
        THEN [st EXCEPT !.pc = "done", !.query = q, !.issued = 1 - @,
                        !.upvotes = up + RootTotalUpvotes(q) + RootTotalComments(q),
                        !.acc = Accumulate(@, q, w.kind), !.vars = h.v]
        ELSE [st EXCEPT !.query = q, !.upvotes = up, !.issued = 1 - @,
                        !.acc = Accumulate(@, q, w.kind), !.vars = h.v,
                        !.requeried = TRUE]

ConnTotal(w, c) == SumSeq(w.conn[c])

\* the loop is followed while no connection was counted MaxRounds times over
WithinRounds(w, st) ==
    \A c \in ConnsOf(w.kind) : st.acc[c] <= MaxRounds * ConnTotal(w, c)

InitConn ==
    /\ cw \in [item : ConnWorlds, variant : {"lib", "internal"}, stale : BOOLEAN,
               following : {FALSE}]
    /\ cn = LoopEntry
    /\ IdlePure /\ IdleTimeline /\ IdleSeq /\ IdleConc /\ IdleRate /\ IdlePipe
    /\ IdleMain

QueryPage_lib ==
    /\ cw.variant = "lib"
    /\ cn.pc = "query"
    /\ WithinRounds(cw.item, cn)
    /\ cn' = LibIteration(cw.item, 1, cn, cw.stale)
    /\ UNCHANGED <<cw, pureVars, tlVars, seqVars, concVars, rateVars, pipeVars, mainVars>>

QueryPage_internal ==
    /\ cw.variant = "internal"
    /\ cn.pc = "query"
    /\ WithinRounds(cw.item, cn)
    /\ cn' = InternalIteration(cw.item, 1, cn, cw.stale)
    /\ UNCHANGED <<cw, pureVars, tlVars, seqVars, concVars, rateVars, pipeVars, mainVars>>

\* CalculateUpvotes calls calculateProjectItemUpvotes for the item that
\* follows (cw.following: the item is not the first one).  lib/upvotes builds
\* the variables anew in each call; internal/upvotes builds the map once,
\* before its loop over the items, and passes the same map to every call
NextItem ==
    /\ cn.pc = "done" /\ ~cw.following
    /\ \E w \in LibCatalogue : cw' = [cw EXCEPT !.item = w, !.following = TRUE]
    /\ cn' = [LoopEntry EXCEPT
                !.vars = IF cw.variant = "internal" THEN cn.vars ELSE NullCursors]
    /\ UNCHANGED <<pureVars, tlVars, seqVars, concVars, rateVars, pipeVars, mainVars>>

\* c.Client.Query returns an error: return false, err
QueryFail ==
    /\ cn.pc = "query"
    /\ cn' = [cn EXCEPT !.pc = "err"]
    /\ UNCHANGED <<cw, pureVars, tlVars, seqVars, concVars, rateVars, pipeVars, mainVars>>

NextConn == QueryPage_lib \/ QueryPage_internal \/ NextItem \/ QueryFail

SpecConn == InitConn /\ [][NextConn]_vars

\* Beyond MaxRounds rounds only the runs that a query error ends are followed.
QueryFailAtBound == QueryFail /\ ~WithinRounds(cw.item, cn)

\* the loop keeps running while it can: Query returns, and the loop body runs
FairSpecConn ==
    /\ SpecConn
    /\ WF_vars(QueryPage_lib) /\ WF_vars(QueryPage_internal)
    /\ WF_vars(QueryFailAtBound)

\* C8: the loop adds the reactions of every node of every page of a
\* connection exactly once: never more than the connection holds, and all of
\* them when the loop exits (N*k for N pages of k nodes with one reaction).
C8_ConnectionCountedOnce ==
    \A c \in ConnsOf(cw.item.kind) :
        /\ cn.acc[c] <= ConnTotal(cw.item, c)
        /\ cn.pc = "done" => cn.acc[c] = ConnTotal(cw.item, c)

\* C9: when the loop re-issues the query, the cursor variable of every
\* connection of the item's kind equals the endCursor of that connection in
\* the page just fetched.
C9_CursorsFollowEndCursor ==
    (cn.pc = "query" /\ cn.requeried) =>
        \A c \in ConnsOf(cw.item.kind) :
            cn.vars[CursorVar(c)] = endCursor(PageOf(cn.query, cw.item.kind, c))

\* C10: the loop over the pages of an item's connections terminates.
C10_LoopTerminates == <>(cn.pc \in {"done", "err"})

\* C11: once a connection of the item has reported hasNextPage = false, the
\* iterations that follow leave its cursor variable unchanged, so that the
\* connection is not paged again.
C11_ExhaustedCursorFixed ==
    [][\A c \in ConnsOf(cw.item.kind) :
          (cn.requeried /\ ~hasNextPage(PageOf(cn.query, cw.item.kind, c)))
              => cn'.vars[CursorVar(c)] = cn.vars[CursorVar(c)]]_vars

\* C26: at the first query issued for each project item every inner cursor
\* variable (commentsCursor, trackedIssuesCursor, trackedInIssuesCursor,
\* closingIssuesReferencesCursor) is null: no inner cursor obtained while
\* aggregating one item is used in a query for a different item.
C26_InnerCursorsNullAtFirstQuery ==
    (cn.pc = "query" /\ ~cn.requeried) => cn.vars = NullCursors

\* C31: in lib/upvotes the upvotes computed for an item are the reactions to
\* the issue or pull request, plus the number of its comments, plus the sum
\* of the reactions to each of its comments, and nothing else.
C31_ScoreIsReactionsAndComments ==
    (cw.variant = "lib" /\ cn.pc = "done") =>
        cn.upvotes = cw.item.reactions + Len(cw.item.conn.comments)
                     + SumSeq(cw.item.conn.comments)

\* ========================================================== SpecTimeline
\* The score of one item that is not skipped, its timeline paged:
\* ProcessProjectItem / GetAdditionalTimelineItems of project.go (variant
\* "project", types of queries.go) and Calculator.processProjectItem /
\* getAdditionalTimelineItems of handler.go (variant "handler", types of the
\* unnamed query file with BaseUpvotes and timelineItemsUpvotes).

\* ContentFragment.timelineItemsUpvotes
timelineItemsUpvotes(c) ==
    SumSeq([i \in 1..Len(c.TimelineItems.Nodes) |->
               TimeLineItemUpvotes(c.TimelineItems.Nodes[i])])

\* ProjectItem.GetContent of the handler's types
GetContent_part003(p) ==
    IF p.Type = "Issue" THEN p.Content.Issue ELSE p.Content.PullRequest

\* Content.isClosed and ProjectItem.Skip of the handler's types
isClosed_part003(c) == IF c.Type = "Issue" THEN c.Issue.Closed ELSE c.PullRequest.Closed

Skip_part003(p) ==
    p.IsArchived \/ isClosed_part003(p.Content) \/ p.Content.Type = "DraftIssue"

\* What node(id: $nodeId) returns to getAdditionalTimelineItems for the
\* variable cursor: the selection of ContentFragment is timelineItems(first:
\* 100, itemTypes: ...), it has no `after`, the variable is not used.
ApiNode_handler(w, cursor) == ApiContent(w, 0)

\* the content the loop body of getAdditionalTimelineItems picks
NodeContent_handler(q) == IF q.Type = "Issue" THEN q.Issue ELSE q.PullRequest

\* a connected issue with one comment, a cross-referencing pull request with
\* a comment and a reaction, a comment with a reaction, a subscription
SampleNodes ==
    {[t |-> "ConnectedEvent", lkind |-> "Issue", lc |-> 1, lr |-> 0, cr |-> 0],
     [t |-> "CrossReferencedEvent", lkind |-> "PullRequest", lc |-> 1, lr |-> 1,
      cr |-> 0],
     [t |-> "IssueComment", lkind |-> "", lc |-> 0, lr |-> 0, cr |-> 1],
     [t |-> "SubscribedEvent", lkind |-> "", lc |-> 0, lr |-> 0, cr |-> 0]}

Timelines == UNION {[1..n -> SampleNodes] : n \in 0..MaxTimeline}

\* the issue of the example: 2 reactions, 3 comments, one connected issue
ExampleItem ==
    [kind |-> "Issue", archived |-> FALSE, closed |-> FALSE, comments |-> 3,
     reactions |-> 2, stored |-> 0, field |-> 0,
     timeline |-> <<[t |-> "ConnectedEvent", lkind |-> "Issue", lc |-> 1, lr |-> 0,
                     cr |-> 0]>>]

TimelineWorlds ==
    [kind : ContentKinds, archived : {FALSE}, closed : {FALSE}, comments : Counts,
     reactions : Counts, timeline : Timelines, stored : 0..1, field : {0}]
    \cup {ExampleItem}

\* counted is a history variable: how often each timeline node was added
TimelineEntry(w) ==
    [pc |-> "start", upvotes |-> 0, nodes |-> <<>>, t |-> <<>>, cursor |-> 0,
     counted |-> [i \in 1..Len(w.timeline) |-> 0], issued |-> 0]

\* the nodes after `after` on one page are added once more
CountPage(counted, after) ==
    [i \in DOMAIN counted |->
        IF i > after /\ i <= after + TimelinePageSize THEN counted[i] + 1
        ELSE counted[i]]

InitTimeline ==
    /\ tw \in [item : TimelineWorlds, variant : {"project", "handler"}]
    /\ tw.variant = "project" => ~Skip_queries(ApiProjectItem(tw.item, 1, 0))
    /\ tw.variant = "handler" => ~Skip_part003(ApiProjectItem(tw.item, 1, 0))
    /\ tl = TimelineEntry(tw.item)
    /\ IdlePure /\ IdleConn /\ IdleSeq /\ IdleConc /\ IdleRate /\ IdlePipe
    /\ IdleMain

\* project.go ProcessProjectItem up to the call of GetAdditionalTimelineItems,
\* and to its end when the first page is the only one
ProcessProjectItem ==
    /\ tw.variant = "project"
    /\ tl.pc = "start"
    /\ LET content == GetContent_queries(ApiProjectItem(tw.item, 1, 0))
       IN  IF content.TimelineItems.HasNextPage
           THEN tl' = [tl EXCEPT !.pc = "more",
                                 !.nodes = content.TimelineItems.Nodes,
                                 !.cursor = content.TimelineItems.EndCursor,
                                 !.counted = CountPage(@, 0)]
           ELSE tl' = [tl EXCEPT !.pc = "done",
                                 !.nodes = content.TimelineItems.Nodes,
                                 !.upvotes = Upvotes_queries(content),
                                 !.counted = CountPage(@, 0)]
    /\ UNCHANGED <<tw, pureVars, connVars, seqVars, concVars, rateVars, pipeVars, mainVars>>

\* project.go GetAdditionalTimelineItems: one iteration; on break the nodes
\* are appended to the content and ProcessProjectItem computes the score
GetAdditionalTimelineItems ==
    /\ tw.variant = "project"
    /\ tl.pc = "more"
    /\ LET query == ApiProjectItem(tw.item, 1, tl.cursor)
           page == GetContent_queries(query).TimelineItems
           t == tl.t \o page.Nodes
           first == GetContent_queries(ApiProjectItem(tw.item, 1, 0))
           content == [first EXCEPT !.TimelineItems.Nodes = tl.nodes \o t]
       IN  IF ~page.HasNextPage
           THEN tl' = [tl EXCEPT !.pc = "done", !.t = t, !.nodes = tl.nodes \o t,
                                 !.upvotes = Upvotes_queries(content),
                                 !.counted = CountPage(@, tl.cursor),
                                 !.issued = 1 - @]
           ELSE tl' = [tl EXCEPT !.t = t, !.cursor = page.EndCursor,
                                 !.counted = CountPage(@, tl.cursor),
                                 !.issued = 1 - @]
    /\ UNCHANGED <<tw, pureVars, connVars, seqVars, concVars, rateVars, pipeVars, mainVars>>

\* handler.go processProjectItem up to the call of getAdditionalTimelineItems,
\* and to the send on the queue when the first page is the only one
processProjectItem ==
    /\ tw.variant = "handler"
    /\ tl.pc = "start"
    /\ LET content == GetContent_part003(ApiProjectItem(tw.item, 1, 0))
           upvotes == BaseUpvotes(content) + timelineItemsUpvotes(content)
       IN  tl' = [tl EXCEPT
                    !.pc = IF content.TimelineItems.HasNextPage THEN "more" ELSE "done",
                    !.upvotes = upvotes,
                    !.cursor = content.TimelineItems.EndCursor,
                    !.counted = IF content.TimelineItems.Nodes = <<>> THEN @
                                ELSE CountPage(@, 0)]
    /\ UNCHANGED <<tw, pureVars, connVars, seqVars, concVars, rateVars, pipeVars, mainVars>>

\* handler.go getAdditionalTimelineItems: one iteration; on break the sum is
\* added to the upvotes of processProjectItem
getAdditionalTimelineItems ==
    /\ tw.variant = "handler"
    /\ tl.pc = "more"
    /\ \A i \in DOMAIN tl.counted : tl.counted[i] <= MaxRounds
    /\ LET content == NodeContent_handler(ApiNode_handler(tw.item, tl.cursor))
       IN  tl' = [tl EXCEPT
                    !.pc = IF content.TimelineItems.HasNextPage THEN "more" ELSE "done",
                    !.upvotes = @ + timelineItemsUpvotes(content),
                    !.cursor = content.TimelineItems.EndCursor,
                    !.counted = CountPage(@, 0),
                    !.issued = 1 - @]
    /\ UNCHANGED <<tw, pureVars, connVars, seqVars, concVars, rateVars, pipeVars, mainVars>>

\* the query for additional timeline items returns an error
TimelineQueryFail ==
    /\ tl.pc = "more"
    /\ tl' = [tl EXCEPT !.pc = "err"]
    /\ UNCHANGED <<tw, pureVars, connVars, seqVars, concVars, rateVars, pipeVars, mainVars>>

NextTimeline ==
    \/ ProcessProjectItem \/ GetAdditionalTimelineItems
    \/ processProjectItem \/ getAdditionalTimelineItems
    \/ TimelineQueryFail

SpecTimeline == InitTimeline /\ [][NextTimeline]_vars

ExpectedScore(w) ==
    w.comments + w.reactions
    + SumSeq([i \in 1..Len(w.timeline) |-> ExpectedNode(w.timeline[i])])

\* C7: the score of an item is its comments plus its reactions plus the
\* contributions of all the nodes of all the pages of its timeline, and no
\* node is added twice (7 for the example item).
C7_ScoreIsBasePlusTimeline ==
    /\ \A i \in DOMAIN tl.counted : tl.counted[i] <= 1
    /\ tl.pc = "done" =>
          /\ tl.upvotes = ExpectedScore(tw.item)
          /\ \A i \in DOMAIN tl.counted : tl.counted[i] = 1
          /\ tw.item = ExampleItem => tl.upvotes = 7

\* =============================================================== SpecSeq
\* The sequential walkers: UpdateUpvotes of project.go (variant "project",
\* pages of ItemsPageSize items, CURSOR setting) and CalculateUpvotes of
\* lib/upvotes (variant "lib", one item per page, cursor setting).  A first
\* run starts from the empty cursor; when it has ended, a second run is
\* started from one of the cursor values the first run had stored.

\* ---- project.go
\* all the timeline nodes after the cursor: GetAdditionalTimelineItems
RECURSIVE AdditionalNodes(_, _)
AdditionalNodes(w, cursor) ==
    LET page == GetContent_queries(ApiProjectItem(w, 1, cursor)).TimelineItems
    IN  IF ~page.HasNextPage THEN page.Nodes
        ELSE page.Nodes \o AdditionalNodes(w, page.EndCursor)

\* the Update that ProcessProjectItem prepares for the item at pos
ProcessedItem(w, pos) ==
    LET content == GetContent_queries(ApiProjectItem(w, pos, 0))
        all == IF content.TimelineItems.HasNextPage
               THEN [content EXCEPT !.TimelineItems.Nodes =
                        @ \o AdditionalNodes(w, content.TimelineItems.EndCursor)]
               ELSE content
    IN  [Id |-> pos, Upvotes |-> Upvotes_queries(all), Cursor |-> pos]

\* ProcessProjectItems over the edges at positions lo..hi
RECURSIVE ProcessProjectItems(_, _, _)
ProcessProjectItems(items, lo, hi) ==
    IF lo > hi THEN <<>>
    ELSE IF Skip_queries(ApiProjectItem(items[lo], lo, 0))
         THEN ProcessProjectItems(items, lo + 1, hi)
         ELSE <<ProcessedItem(items[lo], lo)>> \o ProcessProjectItems(items, lo + 1, hi)

\* ---- lib/upvotes
RECURSIVE LibLoop(_, _, _, _, _)
LibLoop(w, pos, st, stale, fuel) ==
    IF st.pc = "done" \/ fuel = 0 THEN st
    ELSE LibLoop(w, pos, LibIteration(w, pos, st, stale), stale, fuel - 1)

\* iterations after which the loop over an item's connections is given up
LoopFuel == MaxConn * MaxRounds

\* ---- the boards
\* an open issue, a pull request with two pages of timeline, a closed issue,
\* an archived pull request, an issue whose stored Upvotes_Cursor equals the
\* end of its timeline, and draft issues without and with an Upvotes_Cursor
ProjectCatalogue ==
    LET OpenIssue ==
            [kind |-> "Issue", archived |-> FALSE, closed |-> FALSE, comments |-> 1,
             reactions |-> 0, timeline |-> <<>>, stored |-> 1, field |-> 0]
        PagedPullRequest ==
            [kind |-> "PullRequest", archived |-> FALSE, closed |-> FALSE,
             comments |-> 0, reactions |-> 1, stored |-> 0, field |-> 0,
             timeline |-> [i \in 1..(TimelinePageSize + 1) |->
                             [t |-> "IssueComment", lkind |-> "", lc |-> 0,
                              lr |-> 0, cr |-> 1]]]
        Draft ==
            [kind |-> "DraftIssue", archived |-> FALSE, closed |-> FALSE,
             comments |-> 0, reactions |-> 0, timeline |-> <<>>, stored |-> 0,
             field |-> 0]
    IN  {OpenIssue, PagedPullRequest, [OpenIssue EXCEPT !.closed = TRUE],
         [PagedPullRequest EXCEPT !.archived = TRUE],
         [OpenIssue EXCEPT !.stored = 0], Draft, [Draft EXCEPT !.stored = 1]}

Boards(catalogue) == UNION {[1..n -> catalogue] : n \in 0..MaxItems}

\* ---- the runs
\* a run at its start: the cursor setting, the updates still to send, and as
\* history the write-backs issued, the items scored, the cursor values stored,
\* whether the last pass of the loop left everything unchanged (spin), the
\* parity of the number of queries, and whether a query or mutation failed
NewRun(cursor) ==
    [pc |-> "get", cursor |-> cursor, updates |-> <<>>, hasNext |-> FALSE,
     writes |-> {}, scored |-> {}, stored |-> {cursor}, spin |-> FALSE,
     issued |-> 0, failed |-> FALSE]

\* the run will issue no further write-back
Ended(run) == run.pc \in {"done", "hang", "panic"} \/ run.spin

InitSeq ==
    /\ sb \in [variant : {"project"}, items : Boards(ProjectCatalogue),
               write : {TRUE}, stale : {FALSE}]
         \cup [variant : {"lib"}, items : Boards(LibCatalogue),
               write : BOOLEAN, stale : BOOLEAN]
         \cup [variant : {"libfunc"}, items : Boards(LibCatalogue),
               write : {FALSE}, stale : BOOLEAN]
    /\ sq = [phase |-> "first", from |-> 0, first |-> NewRun(0), run |-> NewRun(0)]
    /\ IdlePure /\ IdleTimeline /\ IdleConn /\ IdleConc /\ IdleRate /\ IdlePipe
    /\ IdleMain

\* the end of one pass of the loop of UpdateUpvotes, all updates sent
EndOfPass(run, hasNext, progress) ==
    IF ~hasNext
    THEN [run EXCEPT !.pc = "done", !.cursor = 0, !.stored = @ \cup {0},
                     !.updates = <<>>, !.spin = FALSE]
    ELSE [run EXCEPT !.pc = "get", !.updates = <<>>, !.spin = ~progress]

\* project.go: GetProjectItems and ProcessProjectItems of one pass (and the
\* rest of the pass when there is nothing to update)
GetProjectItems ==
    /\ sb.variant = "project"
    /\ sq.run.pc = "get"
    /\ LET n == Len(sb.items)
           lo == PageLo(sq.run.cursor)
           hi == PageHi(n, sq.run.cursor, ItemsPageSize)
           hasNext == PageHasNext(n, sq.run.cursor, ItemsPageSize)
           updates == ProcessProjectItems(sb.items, lo, hi)
           run == [sq.run EXCEPT
                     !.issued = 1 - @,
                     !.hasNext = hasNext,
                     !.scored = @ \cup {updates[i].Id : i \in 1..Len(updates)}]
       IN  sq' = [sq EXCEPT !.run =
                     IF updates = <<>> THEN EndOfPass(run, hasNext, FALSE)
                     ELSE [run EXCEPT !.pc = "update", !.updates = updates,
                                      !.spin = FALSE]]
    /\ UNCHANGED <<sb, pureVars, tlVars, connVars, concVars, rateVars, pipeVars, mainVars>>

\* project.go: UpdateProjectItems, one mutation (and the rest of the pass
\* after the last one)
UpdateProjectItems ==
    /\ sb.variant = "project"
    /\ sq.run.pc = "update"
    /\ LET update == Head(sq.run.updates)
           run == [sq.run EXCEPT
                     !.writes = @ \cup {<<update.Id, update.Upvotes>>},
                     !.cursor = update.Cursor,
                     !.stored = @ \cup {update.Cursor},
                     !.updates = Tail(@)]
       IN  sq' = [sq EXCEPT !.run =
                     IF run.updates = <<>> THEN EndOfPass(run, run.hasNext, TRUE)
                     ELSE run]
    /\ UNCHANGED <<sb, pureVars, tlVars, connVars, concVars, rateVars, pipeVars, mainVars>>

WriteBack_Always(write, writes, id, upvotes) == writes \cup {<<id, upvotes>>}

\* if viper.GetBool("write") { c.updateProjectItem(projectItemID, upvotes) }
WriteBack(write, writes, id, upvotes) ==
    IF write THEN writes \cup {<<id, upvotes>>} ELSE writes

\* lib/upvotes: calculateProjectItemUpvotes, and the test of CalculateUpvotes
\* on what it returns; of the Calculator (variant "lib") and of the package
\* level CalculateUpvotes (variant "libfunc", which has no write-back)
calculateProjectItemUpvotes ==
    /\ sb.variant \in {"lib", "libfunc"}
    /\ sq.run.pc = "get"
    /\ LET n == Len(sb.items)
           pos == PageLo(sq.run.cursor)
       IN  IF pos > n
           THEN \* Nodes is empty: index out of range at Nodes[0]
                sq' = [sq EXCEPT !.run.pc = "panic"]
           ELSE LET st == LibLoop(sb.items[pos], pos, LoopEntry, sb.stale, LoopFuel)
                IN  IF st.pc # "done"
                    THEN sq' = [sq EXCEPT !.run.pc = "hang"]
                    ELSE sq' = [sq EXCEPT
                           !.run.pc = IF pos < n THEN "get" ELSE "done",
                           !.run.issued = 1 - @,
                           !.run.scored = @ \cup {pos},
                           !.run.writes =
                               WriteBack(sb.write, @, st.query.Id, st.upvotes),
                           !.run.cursor = pos,
                           !.run.stored = @ \cup {pos}]
    /\ UNCHANGED <<sb, pureVars, tlVars, connVars, concVars, rateVars, pipeVars, mainVars>>

\* a query or a mutation returns an error: the walker returns it
SeqFail ==
    /\ sb.variant \in {"project", "lib"}
    /\ sq.run.pc \in {"get", "update"}
    /\ sq' = [sq EXCEPT !.run.pc = "err", !.run.failed = TRUE]
    /\ UNCHANGED <<sb, pureVars, tlVars, connVars, concVars, rateVars, pipeVars, mainVars>>

\* the package level CalculateUpvotes of lib/upvotes: a query returns an
\* error, calculateProjectItemUpvotes returns (false, err); the error is
\* logged, !hasNextPage breaks the loop, return nil
SeqFailLogged ==
    /\ sb.variant = "libfunc"
    /\ sq.run.pc = "get"
    /\ sq' = [sq EXCEPT !.run.pc = "done", !.run.failed = TRUE]
    /\ UNCHANGED <<sb, pureVars, tlVars, connVars, concVars, rateVars, pipeVars, mainVars>>

\* the program is started again, from a cursor value the first run stored
Restart ==
    /\ sq.phase = "first"
    /\ Ended(sq.run)
    /\ \E c \in sq.run.stored :
          sq' = [phase |-> "resumed", from |-> c, first |-> sq.run, run |-> NewRun(c)]
    /\ UNCHANGED <<sb, pureVars, tlVars, connVars, concVars, rateVars, pipeVars, mainVars>>

NextSeq ==
    \/ GetProjectItems \/ UpdateProjectItems
    \/ calculateProjectItemUpvotes
    \/ SeqFail \/ SeqFailLogged \/ Restart

SpecSeq == InitSeq /\ [][NextSeq]_vars

\* C2: a run started from a stored cursor issues the write-backs that the
\* uninterrupted run issued for the items after that cursor, no other and,
\* once it has ended, all of them; it scores and writes no item at or before
\* the cursor.
C2_ResumedRunWritesTheRest ==
    sq.phase = "resumed" =>
        LET rest == {w \in sq.first.writes : w[1] > sq.from}
        IN  /\ \A w \in sq.run.writes : w[1] > sq.from
            /\ \A p \in sq.run.scored : p > sq.from
            /\ sq.run.writes \subseteq rest
            /\ Ended(sq.run) => sq.run.writes = rest

C2_Witness ==
    /\ sq.phase = "resumed"
    /\ sb.variant = "project"
    /\ sq.run.pc = "done"
    /\ sq.from > 0
    /\ sq.run.writes # {}
    /\ \E w \in sq.first.writes : w[1] <= sq.from

\* C3: an item that is archived, a draft issue, or whose issue or pull
\* request is closed is never scored and never written back, by any walker.
C3_SkippedNeverWritten ==
    /\ \A w \in sq.run.writes : ~ExpectedSkip(sb.items[w[1]])
    /\ \A p \in sq.run.scored : ~ExpectedSkip(sb.items[p])

Returned(run) ==
    CASE run.pc = "err" -> "err"
      [] run.pc = "done" -> "nil"
      [] OTHER -> "none"

\* C16: a run in which a query or a mutation failed does not return nil.
C16_FailedRunReturnsError == sq.run.failed => Returned(sq.run) # "nil"

\* C22: content resolution on an item the walker does not skip and whose
\* type tag is neither Issue nor PullRequest fails: no walker gets a
\* fragment for such an item, scores it and writes the score back.
C22_UnknownTagNotResolved ==
    /\ \A p \in sq.run.scored : sb.items[p].kind \in ContentKinds
    /\ \A w \in sq.run.writes : sb.items[w[1]].kind \in ContentKinds

\* C36: when a fetched page of project items holds no node (an empty
\* project, or a starting cursor at the end of the list) the walker ends
\* normally: it makes no out-of-range access to the first node, and it
\* issues no mutation.
C36_EmptyPageEndsNormally ==
    /\ sq.run.pc # "panic"
    /\ PageLo(sq.from) > Len(sb.items) => sq.run.writes = {}

\* ------------------------------------------------------------- SpecConc
\* The concurrent Calculator of handler.go: UpdateUpvotes starts
\* projectItemUpdateService and projectItemQueryService; the query service
\* reads a page of items after c.cursor and processProjectItems starts one
\* goroutine per item; each goroutine sends its result on the unbuffered
\* queue; the update service mutates one item at a time and sets c.cursor.
\* The types are those with ProjectItemEdge embedding ProjectItem as node;
\* ProjectItem.Skip and ProjectItem.GetContent read as Skip_part003 and
\* GetContent_part003 do, the node query of getAdditionalTimelineItems as
\* ApiNode_handler and NodeContent_handler do.

\* ContentFragment.Upvotes: the BaseFragment and every timeline node
ContentFragmentUpvotes(c) == BaseUpvotes(c) + timelineItemsUpvotes(c)

\* Calculator.setRateLimitData
setRateLimitData(remaining, v) == IF remaining > v THEN v ELSE remaining

\* an open pull request with one timeline node, one with two pages of
\* timeline, an open issue, a closed issue, a draft issue
ConcCatalogue ==
    LET OpenPullRequest ==
            [kind |-> "PullRequest", archived |-> FALSE, closed |-> FALSE,
             comments |-> 1, reactions |-> 0, stored |-> 0, field |-> 0,
             timeline |-> <<[t |-> "IssueComment", lkind |-> "", lc |-> 0,
                             lr |-> 0, cr |-> 1]>>]
        Paged ==
            [OpenPullRequest EXCEPT
                !.timeline = [i \in 1..(TimelinePageSize + 1) |->
                                 OpenPullRequest.timeline[1]]]
        OpenIssue ==
            [OpenPullRequest EXCEPT !.kind = "Issue", !.timeline = <<>>]
    IN  {OpenPullRequest, Paged, OpenIssue, [OpenIssue EXCEPT !.closed = TRUE],
         [OpenIssue EXCEPT !.kind = "DraftIssue", !.comments = 0]}

\* the goroutine processProjectItems starts for one edge
NewWorker == [st |-> "ready", upvotes |-> 0, rounds |-> 0]

\* what ProjectItemsQuery returns for the items after `after`
ItemsPage(items, after) ==
    [lo |-> PageLo(after),
     hi |-> PageHi(Len(items), after, ItemsPageSize),
     HasNextPage |-> PageHasNext(Len(items), after, ItemsPageSize)]

\* childCtx of UpdateUpvotes is cancelled by the deferred cancel
CtxDone == cc.main # "select"

\* childCtx of processProjectItems: cancelled with a cause, or by its parent
PageCtxDone == cc.cause \/ CtxDone

InitConc ==
    /\ cb \in Boards(ConcCatalogue)
    /\ cc \in [main : {"select"}, cursor : {0}, rate : 0..RateBudget,
               qs : {"loop"}, page : {ItemsPage(<<>>, 0)}, w : {<<>>},
               cause : {FALSE}, us : {"recv"}, held : {<<>>}, exit : {FALSE},
               mutated : {{}}, writes : {{}}, failed : {0}]
    /\ IdlePure /\ IdleTimeline /\ IdleConn /\ IdleSeq /\ IdleRate /\ IdlePipe
    /\ IdleMain

OthersConc == <<cb, pureVars, tlVars, connVars, seqVars, rateVars, pipeVars, mainVars>>

\* projectItemQueryService, one pass of pageloop up to the call of
\* processProjectItems having started its goroutines: len(queue) of the
\* unbuffered queue is 0; remaining is what the response reports
QueryItems ==
    /\ cc.qs = "loop" /\ ~CtxDone
    /\ ~(cc.rate < 2 * 0)
    /\ \E remaining \in 0..RateBudget :
          LET page == ItemsPage(cb, cc.cursor)
          IN  cc' = [cc EXCEPT !.qs = "wait", !.page = page, !.cause = FALSE,
                               !.rate = setRateLimitData(@, remaining),
                               !.w = [p \in page.lo..page.hi |-> NewWorker]]
    /\ UNCHANGED OthersConc

\* projectItemQueryService: the query returns an error, c.err <- err blocks
QueryItemsFail ==
    /\ cc.qs = "loop" /\ ~CtxDone
    /\ ~(cc.rate < 2 * 0)
    /\ cc' = [cc EXCEPT !.qs = "err"]
    /\ UNCHANGED OthersConc

\* projectItemQueryService: break pageloop near the rate limit, or return on
\* ctx.Done(); the deferred close(queue) runs
RateHalt ==
    /\ cc.qs = "loop"
    /\ CtxDone \/ cc.rate < 2 * 0
    /\ cc' = [cc EXCEPT !.qs = "done"]
    /\ UNCHANGED OthersConc

\* the goroutine of processProjectItems for the edge at p, through
\* processProjectItem up to its first blocking call
Worker(p) ==
    /\ cc.qs = "wait" /\ p \in DOMAIN cc.w /\ cc.w[p].st = "ready"
    /\ LET e == ApiProjectItem(cb[p], p, 0)
           content == GetContent_part003(e)
       IN  cc' = [cc EXCEPT !.w[p] =
                     IF PageCtxDone \/ Skip_part003(e) THEN [@ EXCEPT !.st = "done"]
                     ELSE [@ EXCEPT
                             !.st = IF content.TimelineItems.HasNextPage
                                    THEN "paging" ELSE "send",
                             !.upvotes = ContentFragmentUpvotes(content)]]
    /\ UNCHANGED OthersConc

\* getAdditionalTimelineItems, one iteration of its loop
WorkerPage(p) ==
    /\ cc.qs = "wait" /\ p \in DOMAIN cc.w /\ cc.w[p].st = "paging"
    /\ ~PageCtxDone
    /\ cc.w[p].rounds < MaxRounds
    /\ \E remaining \in 0..RateBudget :
          LET content == NodeContent_handler(ApiNode_handler(cb[p], 0))
          IN  cc' = [cc EXCEPT
                       !.rate = setRateLimitData(@, remaining),
                       !.w[p] = [@ EXCEPT
                                   !.st = IF content.TimelineItems.HasNextPage
                                          THEN "paging" ELSE "send",
                                   !.upvotes = @ + ContentFragmentUpvotes(content),
                                   !.rounds = @ + 1]]
    /\ UNCHANGED OthersConc

\* getAdditionalTimelineItems returns an error (of the query, or of the
\* cancelled context); the goroutine calls cancel(err), the first cause stays
\* (failed: the position of the item whose error is the cause, 0 for none)
WorkerPageFail(p) ==
    /\ cc.qs = "wait" /\ p \in DOMAIN cc.w /\ cc.w[p].st = "paging"
    /\ cc' = [cc EXCEPT !.w[p].st = "done", !.cause = TRUE,
                        !.failed = IF cc.cause THEN @ ELSE p]
    /\ UNCHANGED OthersConc

\* queue <- updateProjectItemInput{...} meets `for rcvd := range queue`
Receive(p) ==
    /\ cc.us = "recv"
    /\ cc.qs = "wait" /\ p \in DOMAIN cc.w /\ cc.w[p].st = "send"
    /\ cc' = [cc EXCEPT !.us = "got", !.held = <<p, cc.w[p].upvotes>>,
                        !.w[p].st = "done"]
    /\ UNCHANGED OthersConc

\* processProjectItems returns after wg.Wait(); projectItemQueryService
\* sends the cause on c.err, or ends the run with an empty cursor after the
\* last page, or goes on with the next page
PageEnd ==
    /\ cc.qs = "wait"
    /\ \A p \in DOMAIN cc.w : cc.w[p].st = "done"
    /\ cc' = IF PageCtxDone THEN [cc EXCEPT !.qs = "err"]
             ELSE IF ~cc.page.HasNextPage
                  THEN [cc EXCEPT !.qs = "done", !.cursor = 0]
                  ELSE [cc EXCEPT !.qs = "loop"]
    /\ UNCHANGED OthersConc

\* projectItemUpdateService: the mutation succeeds
Mutate ==
    /\ cc.us = "got" /\ ~CtxDone
    /\ cc' = [cc EXCEPT !.us = "recv", !.held = <<>>,
                        !.mutated = @ \cup {cc.held[1]},
                        !.writes = @ \cup {cc.held},
                        !.cursor = ApiProjectItem(cb[cc.held[1]], cc.held[1], 0).Cursor,
                        !.rate = @ - 1]
    /\ UNCHANGED OthersConc

\* projectItemUpdateService: the mutation returns an error, c.err <- err
\* blocks; or ctx.Done() is seen and the service returns
MutateFail ==
    /\ cc.us = "got"
    /\ cc' = [cc EXCEPT !.us = IF CtxDone THEN "done" ELSE "err", !.held = <<>>]
    /\ UNCHANGED OthersConc

\* projectItemUpdateService: the queue is closed, close(exitTrigger)
QueueClosed ==
    /\ cc.us = "recv" /\ cc.qs = "done"
    /\ cc' = [cc EXCEPT !.us = "done", !.exit = TRUE]
    /\ UNCHANGED OthersConc

\* UpdateUpvotes: the select receives from c.err and returns the error; the
\* sender returns (the query service closes the queue)
ReturnErr ==
    /\ cc.main = "select"
    /\ \/ cc.qs = "err" /\ cc' = [cc EXCEPT !.main = "err", !.qs = "done"]
       \/ cc.us = "err" /\ cc' = [cc EXCEPT !.main = "err", !.us = "done"]
    /\ UNCHANGED OthersConc

\* UpdateUpvotes: the select sees exitTrigger closed and returns nil
ReturnNil ==
    /\ cc.main = "select" /\ cc.exit
    /\ cc' = [cc EXCEPT !.main = "nil"]
    /\ UNCHANGED OthersConc

NextConc ==
    \/ QueryItems \/ QueryItemsFail \/ RateHalt
    \/ \E p \in 1..MaxItems : Worker(p) \/ WorkerPage(p) \/ WorkerPageFail(p) \/ Receive(p)
    \/ PageEnd \/ Mutate \/ MutateFail \/ QueueClosed
    \/ ReturnErr \/ ReturnNil

SpecConc == InitConc /\ [][NextConc]_vars

\* C1: every item at or before c.cursor that is not skipped has had its
\* score computed and its mutation completed successfully; the cursor never
\* stands at or past an item that is unprocessed or failed.
C1_CursorBehindCompletedItems ==
    \A p \in 1..Len(cb) :
        (p <= cc.cursor /\ ~ExpectedSkip(cb[p])) => p \in cc.mutated

\* C13: when the tracked remaining budget is below the reserve threshold
\* (2 * len(queue)) the query service issues no further page query,
\* UpdateUpvotes returns nil, and the cursor it leaves is the end cursor of
\* the last page that was processed, never a position inside that page.
C13_RateHaltAtPageEnd ==
    (cc.main = "nil" /\ cc.page.HasNextPage) =>
        /\ cc.rate < 2 * 0
        /\ cc.cursor = PageEndCursor(Len(cb), cc.page.lo - 1, ItemsPageSize)

\* C17, tasks: once an item of the page has failed, a goroutine of the page
\* that has not started returns without processing its item.
C17_UnstartedNotRun ==
    [][cc.cause =>
          \A p \in DOMAIN cc.w :
              cc.w[p].st = "ready" => cc'.w[p] \in {cc.w[p], [cc.w[p] EXCEPT !.st = "done"]}]_vars

\* C17, walker: once an item of the page has failed, processProjectItems
\* returns the error and no further page is queried.
C17_ErrorEndsPaging ==
    [][cc.cause =>
          /\ cc'.qs # "loop" /\ cc'.page = cc.page
          /\ (cc.qs = "wait" /\ cc'.qs # "wait") => cc'.qs = "err"]_vars

\* C17: in the concurrent Calculator, when aggregation of one item of a page
\* fails, item tasks of that page that have not yet started are not run,
\* processProjectItems returns that first error to the walker, no further
\* page is queried, and after the failure the outer cursor is never set to
\* the position of an item that comes after the failed item.
C17_FailureStopsThePage ==
    [][cc.cause =>
          /\ \A p \in DOMAIN cc.w :
                cc.w[p].st = "ready" =>
                    cc'.w[p] \in {cc.w[p], [cc.w[p] EXCEPT !.st = "done"]}
          /\ cc'.qs # "loop" /\ cc'.page = cc.page
          /\ (cc.qs = "wait" /\ cc'.qs # "wait") => cc'.qs = "err"
          /\ cc'.cursor # cc.cursor => cc'.cursor < cc.failed]_vars

\* C19: the outer cursor receives a new value only after every item of the
\* page just fetched has terminated (skipped, or scored and written), and
\* the new value is that page's end cursor (the empty cursor that ends the
\* run after the last page apart); when an item of a page fails, the cursor
\* keeps the value it had before that page was fetched.
C19_CursorMovesByWholePages ==
    [][/\ (cc'.cursor # cc.cursor /\ cc'.cursor # 0) =>
             /\ \A p \in DOMAIN cc'.w : cc'.w[p].st = "done"
             /\ cc'.cursor = PageEndCursor(Len(cb), cc.page.lo - 1, ItemsPageSize)
       /\ cc'.cause => cc'.cursor = cc'.page.lo - 1]_vars

\* C23: when a run completes because the item list is exhausted, the outer
\* cursor it leaves for the next invocation is the empty string, in every
\* interleaving of the page-query loop and the update service.
C23_ExhaustedRunLeavesEmptyCursor ==
    (cc.main = "nil" /\ cc.qs = "done" /\ ~cc.page.HasNextPage) => cc.cursor = 0

\* C27: the base score (root comments + reactions) is added to an item's
\* score exactly once, however many timeline pages are fetched for it: the
\* sum a goroutine holds is the base plus the timeline contributions of the
\* pages it has fetched.
C27_BaseAddedOnce ==
    \A p \in DOMAIN cc.w :
        cc.w[p].st \in {"paging", "send"} =>
            LET content == GetContent_part003(ApiProjectItem(cb[p], p, 0))
            IN  cc.w[p].upvotes =
                    BaseUpvotes(content)
                    + (cc.w[p].rounds + 1) * timelineItemsUpvotes(content)

\* C30: in a run that completes without error, exactly one update mutation
\* is issued for each item after the starting cursor that is not skipped: no
\* mutation is issued for an item that was already written, and when the run
\* has returned nil after the last page every such item has been written, in
\* every interleaving of the goroutines.
C30_OneMutationPerItem ==
    [][/\ (cc.us = "got" /\ cc'.us = "recv") => cc.held[1] \notin cc.mutated
       /\ (cc'.main = "nil" /\ cc'.qs = "done" /\ ~cc'.page.HasNextPage) =>
              \A p \in 1..Len(cb) : ~ExpectedSkip(cb[p]) => p \in cc'.mutated]_vars

\* C35: for every project item the content variant whose closed flag the
\* skip test consults (Content.isClosed selects it by the content's
\* __typename) is the variant GetContent resolves, whose counts and timeline
\* are scored: both resolve the union to the same fragment.
C35_SkipAndScoreSameVariant ==
    \A p \in DOMAIN cc.w :
        cc.w[p].st # "ready" =>
            LET e == ApiProjectItem(cb[p], p, 0)
                consulted == IF e.Content.Type = "Issue" THEN e.Content.Issue
                             ELSE e.Content.PullRequest
            IN  /\ isClosed_part003(e.Content) = consulted.Closed
                /\ GetContent_part003(e) = consulted

\* C34: during a run the position of the outer cursor in the item list
\* never moves backwards: each value written to c.cursor is the cursor of an
\* item at or after the item of the previous value, the reset to the empty
\* cursor when the list is exhausted apart.
C34_CursorNeverMovesBack ==
    [][(cc'.cursor # cc.cursor /\ ~(cc'.cursor = 0 /\ cc'.qs = "done"))
          => cc'.cursor >= cc.cursor]_vars

\* C39: projectItemQueryService issues no further project items page query
\* once the remaining credits are less than twice the number of items that
\* have been enqueued for update and are not yet updated (the item the
\* update service holds and the items whose goroutines stand at the send).
C39_ReserveForEnqueuedUpdates ==
    [][(cc.qs = "loop" /\ cc'.qs = "wait") =>
          cc.rate >= 2 * ((IF cc.us = "got" THEN 1 ELSE 0)
                          + Cardinality({p \in DOMAIN cc.w : cc.w[p].st = "send"}))]_vars

\* every goroutine of the Calculator keeps running while it can: queries
\* and mutations return, sends and receives meet
FairSpecConc ==
    /\ SpecConc
    /\ WF_vars(QueryItems) /\ WF_vars(RateHalt) /\ WF_vars(PageEnd)
    /\ WF_vars(Mutate) /\ WF_vars(QueueClosed) /\ WF_vars(ReturnNil)
    /\ \A p \in 1..MaxItems :
          WF_vars(Worker(p)) /\ WF_vars(WorkerPage(p)) /\ WF_vars(Receive(p))

\* C21: on any finite project item list, with no query or mutation error
\* (and no item caught in the loop over its own timeline pages), the walker
\* eventually reaches Done: UpdateUpvotes returns, also when a fetched page
\* consists only of skipped items; it never fetches the same page forever.
C21_WalkerReachesDone ==
    <>(\/ cc.main # "select"
       \/ cc.cause \/ cc.qs = "err" \/ cc.us = "err"
       \/ \E p \in DOMAIN cc.w : cc.w[p].st = "paging")

\* ------------------------------------------------------------- SpecRate
\* Calculator.rateLimitRemaining of handler.go under the accesses of the
\* goroutines that share it, statement by statement: the page-query loop
\* (the threshold test, setRateLimitData), the item workers of the page
\* (setRateLimitData in getAdditionalTimelineItems) and the update service
\* (c.rateLimitRemaining = c.rateLimitRemaining - 1 in the later Calculator,
\* no access in the earlier one).  No lock guards the field.  What the API
\* answers (the remaining credits, whether an item or the board has a
\* further page) is chosen freely; MaxRounds queries are followed.

\* the reserve threshold: if c.rateLimitRemaining < 100 in the earlier
\* UpdateUpvotes, if c.rateLimitRemaining < (2 * len(queue)) in the later
\* projectItemQueryService, whose queue is unbuffered
Reserve_NoFloor(variant) == 0

Reserve(variant) ==
    IF variant = "handler1" THEN 100 ELSE 2 * 0

\* the remaining credits a response may report
Remaining(variant) == Max(0, Reserve(variant) - 1)..(Reserve(variant) + RateBudget)

\* the goroutine of processProjectItems for one edge, at its start
RateWorker == [pc |-> "run", v |-> 0]

InitRate ==
    /\ rw \in [variant : {"handler1", "handler2"}]
    /\ \E start \in Reserve(rw.variant)..(Reserve(rw.variant) + RateBudget) :
          rs = [rate |-> start, q |-> "check", qv |-> 0,
                w |-> [i \in 1..ItemsPageSize |-> [RateWorker EXCEPT !.pc = "done"]],
                u |-> "recv", tmp |-> 0, queries |-> 0, succ |-> 0, fails |-> 0]
    /\ IdlePure /\ IdleTimeline /\ IdleConn /\ IdleSeq /\ IdleConc /\ IdlePipe
    /\ IdleMain

OthersRate == <<rw, pureVars, tlVars, connVars, seqVars, concVars, pipeVars, mainVars>>

\* the page loop: the budget is under the threshold, no further page is queried
RateHaltCheck ==
    /\ rs.q = "check"
    /\ rs.rate < Reserve(rw.variant)
    /\ rs' = [rs EXCEPT !.q = "halt"]
    /\ UNCHANGED OthersRate

\* the page loop: the query of a page returns, reporting `remaining`
RatePageQuery ==
    /\ rs.q = "check"
    /\ ~(rs.rate < Reserve(rw.variant))
    /\ rs.queries < MaxRounds
    /\ \E remaining \in Remaining(rw.variant) :
          rs' = [rs EXCEPT !.q = "test", !.qv = remaining, !.queries = @ + 1]
    /\ UNCHANGED OthersRate

\* setRateLimitData in the page loop: if c.rateLimitRemaining > v; after it
\* processProjectItems starts the workers of the page
RatePageTest ==
    /\ rs.q = "test"
    /\ rs' = IF rs.rate > rs.qv THEN [rs EXCEPT !.q = "set"]
             ELSE [rs EXCEPT !.q = "wait", !.w = [i \in 1..ItemsPageSize |-> RateWorker]]
    /\ UNCHANGED OthersRate

\* setRateLimitData in the page loop: c.rateLimitRemaining = v
RatePageSet ==
    /\ rs.q = "set"
    /\ rs' = [rs EXCEPT !.q = "wait", !.rate = rs.qv,
                        !.w = [i \in 1..ItemsPageSize |-> RateWorker]]
    /\ UNCHANGED OthersRate

\* a worker: the query of getAdditionalTimelineItems returns
RateWorkerQuery(i) ==
    /\ rs.w[i].pc = "run"
    /\ rs.queries < MaxRounds
    /\ \E remaining \in Remaining(rw.variant) :
          rs' = [rs EXCEPT !.w[i] = [pc |-> "test", v |-> remaining],
                           !.queries = @ + 1]
    /\ UNCHANGED OthersRate

\* a worker, setRateLimitData: if c.rateLimitRemaining > v
RateWorkerTest(i) ==
    /\ rs.w[i].pc = "test"
    /\ rs' = [rs EXCEPT !.w[i].pc = IF rs.rate > rs.w[i].v THEN "set" ELSE "run"]
    /\ UNCHANGED OthersRate

\* a worker, setRateLimitData: c.rateLimitRemaining = v
RateWorkerSet(i) ==
    /\ rs.w[i].pc = "set"
    /\ rs' = [rs EXCEPT !.w[i].pc = "run", !.rate = rs.w[i].v]
    /\ UNCHANGED OthersRate

\* a worker has no further timeline page (or its item is skipped, or its
\* query failed) and reaches the send on the queue, or returns
RateWorkerSend(i) ==
    /\ rs.w[i].pc = "run"
    /\ \E pc \in {"send", "done"} : rs' = [rs EXCEPT !.w[i].pc = pc]
    /\ UNCHANGED OthersRate

\* the update service receives from a worker
RateReceive(i) ==
    /\ rs.u = "recv" /\ rs.w[i].pc = "send"
    /\ rs' = [rs EXCEPT !.u = "got", !.w[i].pc = "done"]
    /\ UNCHANGED OthersRate

\* the update service: Mutate returns nil; the earlier Calculator sets the
\* cursor and sleeps, the later one goes on to the decrement
RateMutate ==
    /\ rs.u = "got"
    /\ rs' = IF rw.variant = "handler1"
             THEN [rs EXCEPT !.u = "recv", !.succ = @ + 1]
             ELSE [rs EXCEPT !.u = "read"]
    /\ UNCHANGED OthersRate

\* the update service: Mutate returns an error
RateMutateFail ==
    /\ rs.u = "got"
    /\ rs' = [rs EXCEPT !.u = "err", !.fails = @ + 1]
    /\ UNCHANGED OthersRate

\* c.rateLimitRemaining = c.rateLimitRemaining - 1: the read
RateDecRead ==
    /\ rs.u = "read"
    /\ rs' = [rs EXCEPT !.u = "write", !.tmp = rs.rate]
    /\ UNCHANGED OthersRate

\* c.rateLimitRemaining = c.rateLimitRemaining - 1: the write
RateDecWrite ==
    /\ rs.u = "write"
    /\ rs' = [rs EXCEPT !.u = "recv", !.rate = rs.tmp - 1, !.succ = @ + 1]
    /\ UNCHANGED OthersRate

\* wg.Wait() returns: the next pass of the page loop, or the last page
RatePageEnd ==
    /\ rs.q = "wait"
    /\ \A i \in 1..ItemsPageSize : rs.w[i].pc = "done"
    /\ \E q \in {"check", "done"} : rs' = [rs EXCEPT !.q = q]
    /\ UNCHANGED OthersRate

NextRate ==
    \/ RateHaltCheck \/ RatePageQuery \/ RatePageTest \/ RatePageSet
    \/ \E i \in 1..ItemsPageSize :
          \/ RateWorkerQuery(i) \/ RateWorkerTest(i) \/ RateWorkerSet(i)
          \/ RateWorkerSend(i) \/ RateReceive(i)
    \/ RateMutate \/ RateMutateFail \/ RateDecRead \/ RateDecWrite
    \/ RatePageEnd

SpecRate == InitRate /\ [][NextRate]_vars

\* C14: the stored rateLimitRemaining never increases: no step of any
\* goroutine replaces the stored value by a larger one, in any interleaving.
C14_RemainingNeverIncreases == [][rs'.rate <= rs.rate]_vars

\* C15: the handling of a successful mutation lowers the tracked budget by
\* exactly 1, a failed mutation leaves it unchanged, in both Calculators.
C15_MutationCostsOne ==
    [][/\ rs'.succ # rs.succ => rs'.rate = rs.rate - 1
       /\ rs'.fails # rs.fails => rs'.rate = rs.rate]_vars

\* C38: in UpdateUpvotes with the fixed floor no project items page query
\* is issued in a state where rateLimitRemaining < 100, and when the check
\* finds rateLimitRemaining < 100 the loop is left with return nil.
C38_NoPageQueryUnderFloor ==
    [][rw.variant = "handler1" =>
          /\ (rs.q = "check" /\ rs'.q = "test") => rs.rate >= 100
          /\ (rs.q = "check" /\ rs'.q # "check" /\ rs.rate < 100) => rs'.q = "halt"]_vars

\* a page was queried, a response lowered the budget to 99, and the check
\* that followed ended the run
C38_Witness ==
    /\ rw.variant = "handler1"
    /\ rs.q = "halt" /\ rs.rate = 99 /\ rs.queries >= 1

\* ------------------------------------------------------------ SpecEarly
\* The earlier Calculator of handler.go (lines 118-330): UpdateUpvotes is
\* itself the page loop; it starts projectItemUpdateService, which ranges
\* over the shared unbuffered c.queue and reports a failed mutation on the
\* unbuffered errChan; processProjectItems starts one goroutine per item and
\* waits for all of them; a goroutine sets c.cursor for a skipped item and
\* sends the others on c.queue.  cc.main is where UpdateUpvotes stands
\* ("loop": at its select, "wait": in wg.Wait(), "nil" / "err": returned),
\* cc.dropped the items received after the context was cancelled.

\* childCtx of UpdateUpvotes is cancelled by the deferred cancel
EarlyCtxDone == cc.main \in {"nil", "err"}

InitEarly ==
    /\ cb \in Boards(ConcCatalogue)
    /\ cc \in [main : {"loop"}, cursor : {0},
               rate : Reserve("handler1")..(Reserve("handler1") + RateBudget),
               page : {ItemsPage(<<>>, 0)}, w : {<<>>}, cause : {FALSE},
               us : {"recv"}, held : {<<>>}, mutated : {{}}, dropped : {{}}]
    /\ IdlePure /\ IdleTimeline /\ IdleConn /\ IdleSeq /\ IdleRate /\ IdlePipe
    /\ IdleMain

\* UpdateUpvotes, the default case of the select (no error waits on
\* errChan): the budget is at or over the floor, the query returns a page,
\* setRateLimitData, and processProjectItems starts its goroutines
EarlyQuery ==
    /\ cc.main = "loop" /\ cc.us # "blockerr"
    /\ ~(cc.rate < Reserve("handler1"))
    /\ \E remaining \in Remaining("handler1") :
          LET page == ItemsPage(cb, cc.cursor)
          IN  cc' = [cc EXCEPT !.main = "wait", !.page = page, !.cause = FALSE,
                               !.rate = setRateLimitData(@, remaining),
                               !.w = [p \in page.lo..page.hi |-> NewWorker]]
    /\ UNCHANGED OthersConc

\* UpdateUpvotes: the query returns an error, return err
EarlyQueryFail ==
    /\ cc.main = "loop" /\ cc.us # "blockerr"
    /\ ~(cc.rate < Reserve("handler1"))
    /\ cc' = [cc EXCEPT !.main = "err"]
    /\ UNCHANGED OthersConc

\* UpdateUpvotes: fewer credits than the floor, return nil
EarlyHalt ==
    /\ cc.main = "loop" /\ cc.us # "blockerr"
    /\ cc.rate < Reserve("handler1")
    /\ cc' = [cc EXCEPT !.main = "nil"]
    /\ UNCHANGED OthersConc

\* UpdateUpvotes: the select receives the error the update service sends on
\* errChan and returns it; the update service returns
EarlyRecvErr ==
    /\ cc.main = "loop" /\ cc.us = "blockerr"
    /\ cc' = [cc EXCEPT !.main = "err", !.us = "done"]
    /\ UNCHANGED OthersConc

\* the goroutine of processProjectItems for the edge at p, through
\* processProjectItem up to its first blocking call
EarlyWorker(p) ==
    /\ cc.main = "wait" /\ p \in DOMAIN cc.w /\ cc.w[p].st = "ready"
    /\ LET e == ApiProjectItem(cb[p], p, 0)
           content == GetContent_part003(e)
       IN  cc' = IF cc.cause
                 THEN [cc EXCEPT !.w[p].st = "done"]
                 ELSE IF Skip_part003(e)
                 THEN [cc EXCEPT !.w[p].st = "done", !.cursor = e.Cursor]
                 ELSE [cc EXCEPT !.w[p] =
                         [@ EXCEPT
                            !.st = IF content.TimelineItems.HasNextPage
                                   THEN "paging" ELSE "send",
                            !.upvotes = BaseUpvotes(content)
                                        + timelineItemsUpvotes(content)]]
    /\ UNCHANGED OthersConc

\* getAdditionalTimelineItems, one iteration of its loop: the page is added,
\* or the query returns an error and the goroutine calls cancel(err)
EarlyWorkerPage(p) ==
    /\ cc.main = "wait" /\ p \in DOMAIN cc.w /\ cc.w[p].st = "paging"
    /\ \/ /\ ~cc.cause
          /\ cc.w[p].rounds < MaxRounds
          /\ \E remaining \in Remaining("handler1") :
                LET content == NodeContent_handler(ApiNode_handler(cb[p], 0))
                IN  cc' = [cc EXCEPT
                             !.rate = setRateLimitData(@, remaining),
                             !.w[p] = [@ EXCEPT
                                         !.st = IF content.TimelineItems.HasNextPage
                                                THEN "paging" ELSE "send",
                                         !.upvotes = @ + timelineItemsUpvotes(content),
                                         !.rounds = @ + 1]]
       \/ cc' = [cc EXCEPT !.w[p].st = "done", !.cause = TRUE]
    /\ UNCHANGED OthersConc

\* c.queue <- updateProjectItemInput{...} meets `for rcvd := range c.queue`;
\* the update service returns when it finds ctx.Done()
EarlyReceive(p) ==
    /\ cc.us = "recv"
    /\ p \in DOMAIN cc.w /\ cc.w[p].st = "send"
    /\ cc' = IF EarlyCtxDone
             THEN [cc EXCEPT !.us = "done", !.w[p].st = "done",
                             !.dropped = @ \cup {p}]
             ELSE [cc EXCEPT !.us = "got", !.held = <<p, cc.w[p].upvotes>>,
                             !.w[p].st = "done"]
    /\ UNCHANGED OthersConc

\* projectItemUpdateService: Mutate returns nil and c.cursor is set, or it
\* returns an error (always so once ctx is cancelled) and errChan <- err
\* blocks
EarlyMutate ==
    /\ cc.us = "got"
    /\ \/ /\ ~EarlyCtxDone
          /\ cc' = [cc EXCEPT !.us = "recv", !.held = <<>>,
                              !.mutated = @ \cup {cc.held[1]},
                              !.cursor = ApiProjectItem(cb[cc.held[1]], cc.held[1], 0).Cursor]
       \/ cc' = [cc EXCEPT !.us = "blockerr", !.held = <<>>,
                           !.dropped = IF EarlyCtxDone THEN @ \cup {cc.held[1]} ELSE @]
    /\ UNCHANGED OthersConc

\* processProjectItems returns after wg.Wait(): UpdateUpvotes returns the
\* cause, or nil with an empty cursor after the last page, or goes on
EarlyPageEnd ==
    /\ cc.main = "wait"
    /\ \A p \in DOMAIN cc.w : cc.w[p].st = "done"
    /\ cc' = IF cc.cause THEN [cc EXCEPT !.main = "err"]
             ELSE IF ~cc.page.HasNextPage
                  THEN [cc EXCEPT !.main = "nil", !.cursor = 0]
                  ELSE [cc EXCEPT !.main = "loop"]
    /\ UNCHANGED OthersConc

NextEarly ==
    \/ EarlyQuery \/ EarlyQueryFail \/ EarlyHalt \/ EarlyRecvErr
    \/ \E p \in 1..MaxItems : EarlyWorker(p) \/ EarlyWorkerPage(p) \/ EarlyReceive(p)
    \/ EarlyMutate \/ EarlyPageEnd

SpecEarly == InitEarly /\ [][NextEarly]_vars

\* every goroutine runs while it can: queries and mutations return, sends
\* and receives meet
FairSpecEarly ==
    /\ SpecEarly
    /\ WF_vars(EarlyQuery) /\ WF_vars(EarlyHalt) /\ WF_vars(EarlyRecvErr)
    /\ WF_vars(EarlyMutate) /\ WF_vars(EarlyPageEnd)
    /\ \A p \in 1..MaxItems :
          WF_vars(EarlyWorker(p)) /\ WF_vars(EarlyWorkerPage(p))
          /\ WF_vars(EarlyReceive(p))

\* C32: UpdateUpvotes of the Calculator with the shared c.queue and errChan
\* eventually returns in every execution (an item caught in the loop over
\* its own timeline pages apart): in particular an error of a mutation
\* reaches it, and the walker, the item goroutines and the update service
\* are never all blocked forever.
C32_UpdateUpvotesReturns ==
    <>(\/ cc.main \in {"nil", "err"}
       \/ \E p \in DOMAIN cc.w : cc.w[p].st = "paging")

\* C33: when the walker stops querying pages (the budget is under the floor,
\* or the item list is exhausted) and UpdateUpvotes returns nil, no item
\* handed to the update queue is left with its mutation in flight, queued or
\* dropped.
C33_ReturnLeavesNoMutationBehind ==
    cc.main = "nil" =>
        /\ cc.us # "got"
        /\ cc.dropped = {}
        /\ \A p \in DOMAIN cc.w : cc.w[p].st # "send"

\* ------------------------------------------------------------- SpecPipe
\* The channel pipeline of cmd/root.go UpdateUpvotes: GetProjectItems pages
\* through the items and sends the ones not skipped on its out channel,
\* ProcessProjectItems starts one goroutine per item received, each sends an
\* Update, UpdateProjectItems mutates one Update at a time and calls
\* wg.Done(); UpdateUpvotes selects on errChan and done.  All channels are
\* unbuffered.  ls.issued is the parity of the number of page queries
\* issued, ls.inflight the items whose Mutate call has not returned.

\* wg.Wait() returns when the counter of the WaitGroup is zero
WaitGroupZero_Always(n) == TRUE

WaitGroupZero(n) ==
    n = 0

\* `for update := range in` receives when the body of the loop has finished
UpdaterReady_Always(us) == TRUE

UpdaterReady(us) ==
    us = "recv"

InitPipe ==
    /\ lw \in Boards(ConcCatalogue)
    /\ ls = [main |-> "select", gp |-> "query", cursor |-> 0,
             page |-> ItemsPage(<<>>, 0), next |-> 1, wg |-> 0, w |-> <<>>,
             us |-> "recv", inflight |-> {}, mutated |-> {}, writes |-> {},
             issued |-> 0]
    /\ IdlePure /\ IdleTimeline /\ IdleConn /\ IdleSeq /\ IdleConc /\ IdleRate
    /\ IdleMain

OthersPipe ==
    <<lw, pureVars, tlVars, connVars, seqVars, concVars, rateVars, mainVars>>

\* GetProjectItems, gh.Query of one page: it returns the page after the
\* cursor, or (always so once ctx is cancelled) an error and errChan <- err
\* blocks
PipeQuery ==
    /\ ls.gp = "query"
    /\ \/ /\ ls.main = "select"
          /\ ls' = [ls EXCEPT !.gp = "send", !.issued = 1 - @,
                              !.page = ItemsPage(lw, ls.cursor),
                              !.next = PageLo(ls.cursor),
                              !.w = [p \in PageLo(ls.cursor)..PageHi(Len(lw), ls.cursor, ItemsPageSize)
                                        |-> [st |-> "none", cursor |-> 0, nodes |-> <<>>]]]
       \/ ls' = [ls EXCEPT !.gp = "blockerr", !.issued = 1 - @]
    /\ UNCHANGED OthersPipe

\* GetProjectItems, one edge of `for _, item := range query.Items.Edges`:
\* skipped, or wg.Add(1) and out <- item, which the loop of
\* ProcessProjectItems receives and hands to `go process(item)`; the
\* goroutine runs up to its first query or its send
PipeEdge ==
    /\ ls.gp = "send" /\ ls.next <= ls.page.hi
    /\ LET item == ApiProjectItem(lw[ls.next], ls.next, 0)
           content == GetContent_part004(item)
       IN  ls' = IF Skip_part004(item) THEN [ls EXCEPT !.next = @ + 1]
                 ELSE [ls EXCEPT
                         !.next = @ + 1, !.wg = @ + 1,
                         !.w[ls.next] =
                             [st |-> IF content.TimelineItems.HasNextPage
                                     THEN "paging" ELSE "send",
                              cursor |-> content.TimelineItems.EndCursor,
                              nodes |-> content.TimelineItems.Nodes]]
    /\ UNCHANGED OthersPipe

\* GetProjectItems: wg.Wait() returns; break pager on ctx.Done() or after
\* the last page (close(out), and ProcessProjectItems closes its out), or
\* the cursor variable is set to the page's end cursor
PipeWait ==
    /\ ls.gp = "send" /\ ls.next > ls.page.hi
    /\ WaitGroupZero(ls.wg)
    /\ ls' = IF ls.main # "select" \/ ~ls.page.HasNextPage
             THEN [ls EXCEPT !.gp = "closed"]
             ELSE [ls EXCEPT !.gp = "query",
                             !.cursor = PageEndCursor(Len(lw), ls.cursor, ItemsPageSize)]
    /\ UNCHANGED OthersPipe

\* process, one iteration of its loop over the further timeline pages: the
\* nodes are appended, or the query returns an error and errChan <- err
\* blocks
PipePage(p) ==
    /\ p \in DOMAIN ls.w /\ ls.w[p].st = "paging"
    /\ \/ /\ ls.main = "select"
          /\ LET t == ApiContentFragment(lw[p], ls.w[p].cursor).TimelineItems
             IN  ls' = [ls EXCEPT !.w[p] =
                          [st |-> IF t.HasNextPage THEN "paging" ELSE "send",
                           cursor |-> t.EndCursor,
                           nodes |-> ls.w[p].nodes \o t.Nodes]]
       \/ ls' = [ls EXCEPT !.w[p].st = "blockerr"]
    /\ UNCHANGED OthersPipe

\* out <- Update{...} of process meets `for update := range in` of
\* UpdateProjectItems; gh.Mutate is called
PipeReceive(p) ==
    /\ UpdaterReady(ls.us)
    /\ p \in DOMAIN ls.w /\ ls.w[p].st = "send"
    /\ LET content == [GetContent_part004(ApiProjectItem(lw[p], p, 0)) EXCEPT
                          !.TimelineItems.Nodes = ls.w[p].nodes]
       IN  ls' = [ls EXCEPT !.us = "mutate", !.w[p].st = "done",
                            !.inflight = @ \cup {<<p, Upvotes_queries(content)>>}]
    /\ UNCHANGED OthersPipe

\* UpdateProjectItems: gh.Mutate returns nil and wg.Done() is called, or it
\* returns an error and errChan <- err blocks
PipeMutate ==
    /\ \E update \in ls.inflight :
          \/ /\ ls.main = "select"
             /\ ls' = [ls EXCEPT !.us = "recv", !.inflight = @ \ {update},
                                 !.mutated = @ \cup {update[1]},
                                 !.writes = @ \cup {update},
                                 !.wg = @ - 1]
          \/ ls' = [ls EXCEPT !.us = "blockerr", !.inflight = @ \ {update}]
    /\ UNCHANGED OthersPipe

\* UpdateProjectItems: its in channel is closed, the loop ends, close(out)
PipeClosed ==
    /\ ls.us = "recv" /\ ls.gp = "closed"
    /\ ls' = [ls EXCEPT !.us = "done"]
    /\ UNCHANGED OthersPipe

\* UpdateUpvotes: the select receives from errChan and returns the error;
\* the sender goes on: GetProjectItems breaks and closes out, process
\* returns, UpdateProjectItems breaks and closes done
PipeReturnErr ==
    /\ ls.main = "select"
    /\ \/ ls.gp = "blockerr" /\ ls' = [ls EXCEPT !.main = "err", !.gp = "closed"]
       \/ \E p \in DOMAIN ls.w :
             /\ ls.w[p].st = "blockerr"
             /\ ls' = [ls EXCEPT !.main = "err", !.w[p].st = "done"]
       \/ ls.us = "blockerr" /\ ls' = [ls EXCEPT !.main = "err", !.us = "done"]
    /\ UNCHANGED OthersPipe

\* UpdateUpvotes: the select sees done closed and returns nil
PipeReturnNil ==
    /\ ls.main = "select" /\ ls.us = "done"
    /\ ls' = [ls EXCEPT !.main = "nil"]
    /\ UNCHANGED OthersPipe

NextPipe ==
    \/ PipeQuery \/ PipeEdge \/ PipeWait
    \/ \E p \in 1..MaxItems : PipePage(p) \/ PipeReceive(p)
    \/ PipeMutate \/ PipeClosed \/ PipeReturnErr \/ PipeReturnNil

SpecPipe == InitPipe /\ [][NextPipe]_vars

C20_NextPageAfterMutations ==
    [][ls'.issued # ls.issued =>
          \A p \in DOMAIN ls.w :
              ~Skip_part004(ApiProjectItem(lw[p], p, 0)) => p \in ls.mutated]_vars

\* a further page has been queried after every item of a full first page
\* was mutated
C20_Witness ==
    /\ ls.gp = "send" /\ ls.page.lo > ItemsPageSize
    /\ \A p \in 1..ItemsPageSize : p \in ls.mutated

\* C40: in every interleaving of the pipeline, the error and cancellation
\* paths included, no goroutine sends on a channel that has been closed and
\* no channel is closed twice: once GetProjectItems has closed its out
\* channel (upon which ProcessProjectItems closes the channel of the
\* updates) no process goroutine stands at or reaches its send and no edge
\* is sent, and a goroutine that has closed its channel has ended.
C40_NoSendOnClosedNoDoubleClose ==
    /\ [](ls.gp = "closed" =>
             \A p \in DOMAIN ls.w : ls.w[p].st \notin {"send", "paging"})
    /\ [][/\ ls.gp = "closed" => (ls'.gp = "closed" /\ ls'.w = ls.w)
          /\ ls.us = "done" => ls'.us = "done"]_vars

\* the second page query failed after the items of the first page were
\* mutated; UpdateUpvotes has returned the error and GetProjectItems has
\* closed its channel
C40_Witness ==
    /\ ls.gp = "closed" /\ ls.main = "err"
    /\ ls.mutated # {}
    /\ ls.us = "recv"

\* ------------------------------------------------------------- SpecMain
\* The process from its start to its exit, for main.go (prog "main") and
\* the two versions of cmd/root.go ("cmd1", the pipeline; "cmd2", the
\* lib/upvotes walker).  mw holds which settings are present, whether the
\* project number parses, and what the calls into the rest of the program
\* return; ms holds the exit status, the lines appended to the file at
\* $GITHUB_OUTPUT, and (cmd/root.go) whether a query was issued.

InitMain ==
    /\ mw \in [prog : {"main"}, token : BOOLEAN, org : BOOLEAN, output : BOOLEAN,
               project : {"unset", "bad", "ok"}, field : {TRUE}, cursor : BOOLEAN,
               setup : {"nil", "err"}, run : {"nil", "err"}, writable : BOOLEAN]
         \cup [prog : {"cmd1", "cmd2"}, token : BOOLEAN, org : BOOLEAN,
               output : {TRUE}, project : {"unset", "ok"}, field : BOOLEAN,
               cursor : {FALSE}, setup : {"nil"}, run : {"nil", "err"},
               writable : {TRUE}]
    /\ ms = [pc |-> "start", exit |-> "none", lines |-> <<>>, queried |-> FALSE]
    /\ IdlePure /\ IdleTimeline /\ IdleConn /\ IdleSeq /\ IdleConc /\ IdleRate
    /\ IdlePipe

OthersMain ==
    <<mw, pureVars, tlVars, connVars, seqVars, concVars, rateVars, pipeVars>>

\* os.Exit(status): the process ends at once, deferred calls do not run
osExit(status) == [ms EXCEPT !.pc = "exited", !.exit = status]

\* main.go: validateEnv and the exit on its error
MainValidateEnv ==
    /\ mw.prog = "main" /\ ms.pc = "start"
    /\ ms' = IF mw.token /\ mw.org /\ mw.output /\ mw.project # "unset"
             THEN [ms EXCEPT !.pc = "run"]
             ELSE osExit(1)
    /\ UNCHANGED OthersMain

\* main.go after validateEnv: defer output(cursor, ...)(), strconv.Atoi,
\* NewGitHubProject, project.UpdateUpvotes, each error ending in os.Exit(1);
\* on the return from main the deferred output appends the cursor line (the
\* value is what the run left behind the pointer, "" for a nil pointer)
MainRun ==
    /\ mw.prog = "main" /\ ms.pc = "run"
    /\ \E c \in IF mw.cursor THEN 0..1 ELSE {0} :
          ms' = IF mw.project = "bad" \/ mw.setup = "err" \/ mw.run = "err"
                THEN osExit(1)
                ELSE IF ~mw.writable THEN osExit(1)
                ELSE [ms EXCEPT !.pc = "exited", !.exit = 0,
                                !.lines = Append(@, <<"cursor", c>>)]
    /\ UNCHANGED OthersMain

\* cmd/root.go, the pipeline version: Execute, rootCmd.Run, UpdateUpvotes.
\* A missing project or field id is returned as an error; a missing token
\* is logged and the pipeline is started with a nil client, whose first
\* gh.Query panics (exit status 2); Run logs the error UpdateUpvotes
\* returns and returns, rootCmd.Execute returns nil, the process exits 0
CmdExecute_v1 ==
    /\ mw.prog = "cmd1" /\ ms.pc = "start"
    /\ ms' = IF mw.project # "ok" \/ ~mw.field THEN osExit(0)
             ELSE IF ~mw.token THEN osExit(2)
             ELSE [osExit(0) EXCEPT !.queried = TRUE]
    /\ UNCHANGED OthersMain

\* cmd/root.go, the lib/upvotes version: Execute, rootCmd.Run,
\* validateConfig; Run logs the error of validateConfig or of
\* CalculateUpvotes and returns, the process exits 0
CmdExecute_v2 ==
    /\ mw.prog = "cmd2" /\ ms.pc = "start"
    /\ ms' = IF ~(mw.org /\ mw.project = "ok" /\ mw.token) THEN osExit(0)
             ELSE [osExit(0) EXCEPT !.queried = TRUE]
    /\ UNCHANGED OthersMain

NextMain == MainValidateEnv \/ MainRun \/ CmdExecute_v1 \/ CmdExecute_v2

SpecMain == InitMain /\ [][NextMain]_vars

\* C24: once main has passed environment validation, a cursor=<value> line
\* is written to the output file on every termination path of the process,
\* also where the project number cannot be parsed, project setup fails, or
\* UpdateUpvotes returns an error (the file can be written).
C24_CursorLineOnEveryExit ==
    (mw.prog = "main" /\ ms.pc = "exited" /\ mw.writable
     /\ mw.token /\ mw.org /\ mw.output /\ mw.project # "unset")
        => Len(ms.lines) = 1

\* C25: whenever a required setting is missing at startup, or a query or
\* mutation fails during the run, the process terminates with a non-zero
\* exit status; and when a required setting (the token included) is
\* missing, no query is issued before the process terminates.
C25_FailureExitsNonZero ==
    (mw.prog \in {"cmd1", "cmd2"} /\ ms.pc = "exited") =>
        LET missing == \/ ~mw.token \/ mw.project = "unset"
                       \/ (mw.prog = "cmd1" /\ ~mw.field)
                       \/ (mw.prog = "cmd2" /\ ~mw.org)
        IN  /\ missing => (ms.exit # 0 /\ ~ms.queried)
            /\ (ms.queried /\ mw.run = "err") => ms.exit # 0

====
